---- MODULE Spec2Model ----
(***************************************************************************)
(* Tunnel lifecycle of goxray/tun: Client.Connect, Client.Disconnect, the  *)
(* pipe goroutine Connect spawns, and the gateway monitor started by       *)
(* startDebugging.  The collaborators (xray instance, TUN device, route    *)
(* table, pipe) are modelled by their observable outcome: every call of    *)
(* the client on them either succeeds or fails, chosen nondeterministically*)
(*                                                                         *)
(* Specifications:                                                         *)
(*   Spec        the lifecycle                                             *)
(*   FairSpec    the lifecycle with a gateway monitor that keeps running   *)
(*   IOSpec      the lifecycle with the bytes the pipe moves through the   *)
(*               TUN device and the counters of readerMetrics              *)
(*   ConfigSpec  NewClientWithOpts with every Config, then Connect calls   *)
(*   PipeSpec    the sessions of one client and their pipe goroutines      *)
(*   PipeFairSpec  PipeSpec with the guarantees of the Go scheduler        *)
(*   LockSpec    the users of gwMu at the grain of its Lock and Unlock     *)
(*   MetricsSpec Read, Write and Close of readerMetrics at the grain of    *)
(*               their atomic operations                                   *)
(*   StatsSpec   the same Reads and Writes with the resource monitor       *)
(*               calling Stats                                             *)
(***************************************************************************)
EXTENDS Integers, FiniteSets, Sequences, TLC

\* ---- bounds of the model ------------------------------------------------
\* total number of Connect and Disconnect calls made on the client, and the
\* largest number of Connect calls in any run
MaxCalls == 3
\* the same, in the runs that also follow the traffic through the TUN device
MaxIOCalls == 2
\* total number of bytes the TUN devices read and write
MaxBytes == 2
\* total number of Connect and Disconnect calls in the runs that follow the
\* pipe goroutines of several sessions
MaxPipeCalls == 4
\* the readings of the host's clock, 1 .. MaxClock
MaxClock == 2
\* number of times the default gateway of the host changes
MaxGwChanges == 1

\* ---- values ---------------------------------------------------------------
\* Go nil for the fields xInst and stopTunnel; live values are call ids 1..
Nil == 0
Ids == 1..MaxCalls

Gateways == {"gw1", "gw2"}
ServerIP == "srv"

NoIf == <<>>
TunName(i) == <<"tun", i>>

\* DefaultRoutesToTUN, client.go: 0.0.0.0/1 and 128.0.0.0/1
DefaultRoutesToTUN == {<<"0.0.0.0", 1>>, <<"128.0.0.0", 1>>}

\* route.Opts{Gateway, IfName, Routes}
RouteOpts(ifName, gw, routes) == [ifName |-> ifName, gateway |-> gw, routes |-> routes]

\* the route Connect hands to routes.Add inside setupTunnel
TunRoutes(i) == RouteOpts(TunName(i), "", DefaultRoutesToTUN)

\* no route: the value of a route.Opts local outside its function
NoRoute == RouteOpts(NoIf, "", {})

\* a route of the host that the client never touches
HostRoute == RouteOpts(<<"eth", 0>>, "gw1", {<<"10.0.0.0", 8>>})

\* the links Connect is called with: outcome of each stage of createXrayProxy
Links ==
    { [protoOk |-> TRUE,  parseOk |-> TRUE,  makeOk |-> TRUE,  resolveOk |-> TRUE],
      [protoOk |-> FALSE, parseOk |-> TRUE,  makeOk |-> TRUE,  resolveOk |-> TRUE],
      [protoOk |-> TRUE,  parseOk |-> FALSE, makeOk |-> TRUE,  resolveOk |-> TRUE],
      [protoOk |-> FALSE, parseOk |-> FALSE, makeOk |-> TRUE,  resolveOk |-> TRUE],
      [protoOk |-> TRUE,  parseOk |-> TRUE,  makeOk |-> FALSE, resolveOk |-> TRUE],
      [protoOk |-> TRUE,  parseOk |-> TRUE,  makeOk |-> TRUE,  resolveOk |-> FALSE] }

NoLink == [protoOk |-> TRUE, parseOk |-> TRUE, makeOk |-> TRUE, resolveOk |-> TRUE]

\* error texts
ErrProtocolCreate == "invalid config: protocol create"
ErrParse == "invalid config: parse"
ErrMakeInstance == "make instance"
ErrResolve == "xray address not resolvable"
ErrStart == "start xray core instance"
ErrSetupTun == "setup TUN device"
ErrRouteException == "add xray server route exception"
ErrInstanceClose == "instance close err"
ErrTunClose == "tun close err"
ErrRouteDelete == "route delete err"
ErrNotFound == "os.ErrNotExist"
ErrDeadline == "context.DeadlineExceeded"
ErrCanceled == "context.Canceled"
ErrStop == "stop err"

VARIABLES
    pc,            \* position of the caller goroutine inside Connect / Disconnect
    xInst,         \* Client.xInst
    xSrvIP,        \* Client.xSrvIP ("" while nil)
    tunnel,        \* Client.tunnel
    stopTunnel,    \* Client.stopTunnel
    gatewayIP,     \* Client.cfg.GatewayIP
    debugEnabled,  \* Client.debug.enabled
    debugCancel,   \* Client.debug.cancel # nil
    debugCtxDone,  \* Client.debug.ctx is cancelled
    err,           \* local err of Disconnect (joined errors)
    engine,        \* state of each xray instance
    tunDev,        \* state of each TUN device
    osRoutes,      \* host routing table
    osGateway,     \* the host's actual default gateway
    gwChanges,     \* number of gateway changes so far
    cancelled,     \* pipe contexts that have been cancelled
    pipe,          \* position of each pipe goroutine
    pipeErr,       \* pipeErr of each pipe goroutine
    watcher,       \* position of the gatewayMonitor goroutine
    oldRoute,      \* local oldRoute of updateGatewayIP
    ctxDone,       \* the ctx of the running Disconnect (the caller's, and from line
                   \* 298 on the one context.WithTimeout derives from it) is done
    nConnect,      \* number of Connect calls so far (id of the current one)
    nDisconnect,   \* number of Disconnect calls so far
    nConnOk,       \* number of Connect calls that returned nil
    nDiscSince,    \* number of Disconnect calls since the last Connect call
    ops,           \* collaborator calls issued by the current / last call
    res,           \* results the collaborators gave the current / last Disconnect
    lastRet,       \* the last call that returned and its error
    lastLink,      \* argument of the last Connect
    onConnected,   \* the current / last Disconnect was called right after a successful Connect
    routesBefore,  \* host routes when the last Connect was called
    wDelLeft,      \* a Delete of the gateway monitor failed and left its route installed
    nRead,         \* readerMetrics.nRead of the wrapper around each TUN device
    nWritten,      \* readerMetrics.nWritten of the wrapper around each TUN device
    cfg,           \* Client.cfg, the fields besides GatewayIP and Debug
    newCfg,        \* the Config that NewClientWithOpts is called with
    severity,      \* log severity the xray service was last created with
    ownReturn,     \* pipe goroutines whose Copy returned an error on its own (its
                   \* context was not cancelled), until the next Disconnect returns
    gwMu,          \* Client.gwMu: the goroutines holding it as readers, and as writer
    lpc,           \* position of each goroutine inside the code that takes gwMu
    lret,          \* where each goroutine goes on when currentGatewayIP returns
    ipCopy,        \* local ipCopy of currentGatewayIP: its bytes and its array
    newIP,         \* the gateway DiscoverGateway gave the gateway monitor
    gwArr,         \* the array *c.cfg.GatewayIP points into
    ipOut,         \* the net.IP a caller of GatewayIP() holds: its bytes and its array
    lastRead,      \* readerMetrics.lastRead.value of the wrapper around each TUN device
    lastWrite,     \* readerMetrics.lastWrite.value of the wrapper around each TUN device
    clock,         \* the host's clock: what time.Now().UnixNano() gives
    rpos,          \* position inside readerMetrics.Read of the pipe's reading goroutine
    wpos,          \* position inside readerMetrics.Write of the pipe's writing goroutine
    rret,          \* the result of each wrapper's Read until its time is stored, or its error
    wret,          \* the result of each wrapper's Write until its time is stored, or its error
    spos,          \* position inside readerMetrics.Stats of the goroutine that calls it
    stats,         \* the ReaderStats that Stats is building / has returned
    seen           \* the values the four fields have had while the current Stats call ran

vars == <<pc, xInst, xSrvIP, tunnel, stopTunnel, gatewayIP, debugEnabled, debugCancel,
          debugCtxDone, err, engine, tunDev, osRoutes, osGateway, gwChanges, cancelled,
          pipe, pipeErr, watcher, oldRoute, ctxDone, nConnect, nDisconnect,
          nConnOk, nDiscSince, ops, res, lastRet, lastLink, onConnected, routesBefore,
          wDelLeft, nRead, nWritten, cfg, newCfg, severity, ownReturn, gwMu, lpc, lret,
          ipCopy, newIP, gwArr, ipOut, lastRead, lastWrite, clock, rpos, wpos, rret, wret,
          spos, stats, seen>>

clientVars == <<xInst, xSrvIP, tunnel, stopTunnel>>
debugVars == <<debugEnabled, debugCancel, debugCtxDone>>
envVars == <<engine, tunDev, osRoutes, osGateway>>
gwVars == <<gwChanges>>
pipeVars == <<cancelled, pipe, pipeErr>>
watcherVars == <<watcher, oldRoute, wDelLeft>>
ctxVars == <<ctxDone>>
countVars == <<nConnect, nDisconnect, nConnOk, nDiscSince>>
callVars == <<ops, res, lastRet, lastLink, onConnected, routesBefore>>
ioVars == <<nRead, nWritten>>
lockVars == <<gwMu, lpc, lret, ipCopy, newIP, gwArr, ipOut>>
stampVars == <<lastRead, lastWrite>>
statVars == <<clock, rpos, wpos, rret, wret, spos, stats, seen>>
fineVars == <<lockVars, stampVars, statVars>>
auxVars == <<ioVars, cfg, newCfg, severity, ownReturn, fineVars>>

\* ---- Client.tunnel values -------------------------------------------------
NilTunnel == [kind |-> "nil", dev |-> Nil]
\* the (*tun.Interface)(nil) that setupTunnel returns with an error
NilPtrTunnel == [kind |-> "nilptr", dev |-> Nil]
\* newReaderMetrics(ifc)
newReaderMetrics(i) == [kind |-> "metrics", dev |-> i]

\* ---- net.IP values ------------------------------------------------------------
\* the goroutines that take gwMu: a caller of GatewayIP() and the gateway monitor
Procs == {"api", "mon"}
\* a net.IP is its bytes (val) and the array that holds them (arr); nil is NoIP
NoIP == [val |-> "", arr |-> "none"]

\* ---- metrics.go values ----------------------------------------------------------
\* a time.Time: the zero Time, or an instant given by its UnixNano
ZeroTime == [zero |-> TRUE, ns |-> 0]
Time(ns) == [zero |-> FALSE, ns |-> ns]
\* atomicTime.Store (lines 77-83): the value it stores for t
atomicTimeStore(t) == IF t.zero THEN 0 ELSE t.ns
\* atomicTime.Load (lines 85-91): the Time it gives for the stored value n
atomicTimeLoad(n) == IF n = 0 THEN ZeroTime ELSE Time(n)
\* ReaderStats{}
ZeroStats == [bytesRead |-> 0, bytesWritten |-> 0, lastReadAt |-> ZeroTime,
              lastWriteAt |-> ZeroTime]
\* (n, err) of a Read or Write: none yet
NoIO == [n |-> 0, err |-> FALSE]

\* ---- bookkeeping of calls ---------------------------------------------------
ZeroOps == [start |-> 0, tunNew |-> 0, tunUp |-> 0, addTun |-> 0, addTunOk |-> 0,
            delExc |-> 0, addExc |-> 0, addExcOk |-> 0, spawn |-> 0, cancel |-> 0,
            xClose |-> 0, tClose |-> 0, wait |-> 0]
NoRes == [x |-> "none", t |-> "none", r |-> "none", p |-> "none"]

\* errors.Join of results: "ok" / "none" / "" are nil
Join(results) == results \ {"ok", "none", ""}

ConnectPcs == {"c_start", "c_tunNew", "c_tunUp", "c_tunRoutes", "c_delDangling",
               "c_addExc", "c_spawn"}
DisconnectPcs == {"d_stopDebug", "d_join", "d_stopTunnel", "d_xClose", "d_xCloseIn",
                  "d_tClose", "d_tCloseIn", "d_rDel", "d_rDelIn", "d_wait"}

\* ---- pure helpers of the client ----------------------------------------------
currentGatewayIP == gatewayIP

\* xrayToGatewayRoute with a /24 mask
xrayToGatewayRoute_Mask24 == RouteOpts(NoIf, currentGatewayIP, {<<xSrvIP, 24>>})

\* xrayToGatewayRoute, lines 338-348
xrayToGatewayRoute == RouteOpts(NoIf, currentGatewayIP, {<<xSrvIP, 32>>})

\* createXrayProxy with protocol.Parse checked before svc.CreateProtocol
createXrayProxy_ParseFirst(link, id) ==
    IF ~link.parseOk THEN [inst |-> Nil, err |-> ErrParse, ip |-> xSrvIP, made |-> FALSE]
    ELSE IF ~link.protoOk THEN [inst |-> Nil, err |-> ErrProtocolCreate, ip |-> xSrvIP, made |-> FALSE]
    ELSE IF ~link.makeOk THEN [inst |-> Nil, err |-> ErrMakeInstance, ip |-> xSrvIP, made |-> FALSE]
    ELSE IF ~link.resolveOk THEN [inst |-> Nil, err |-> ErrResolve, ip |-> xSrvIP, made |-> TRUE]
    ELSE [inst |-> id, err |-> "", ip |-> ServerIP, made |-> TRUE]

\* createXrayProxy(link): instance, error and the value of c.xSrvIP afterwards
createXrayProxy(link, id) ==
    IF ~link.protoOk THEN [inst |-> Nil, err |-> ErrProtocolCreate, ip |-> xSrvIP, made |-> FALSE]
    ELSE IF ~link.parseOk THEN [inst |-> Nil, err |-> ErrParse, ip |-> xSrvIP, made |-> FALSE]
    ELSE IF ~link.makeOk THEN [inst |-> Nil, err |-> ErrMakeInstance, ip |-> xSrvIP, made |-> FALSE]
    ELSE IF ~link.resolveOk THEN [inst |-> Nil, err |-> ErrResolve, ip |-> xSrvIP, made |-> TRUE]
    ELSE [inst |-> id, err |-> "", ip |-> ServerIP, made |-> TRUE]

\* ---- the route table (collaborator) -------------------------------------------
\* routes.Add(r): on success the route is installed, on failure nothing changes
RouteAdd(table, r, ok) == IF ok THEN table \cup {r} ELSE table
\* routes.Delete(r): removes r; a route that is not there gives os.ErrNotExist;
\* a failing Delete leaves the route installed
RouteDelete(table, r, ok) == IF ok THEN table \ {r} ELSE table
RouteDeleteResult(table, r, ok) ==
    IF r \notin table THEN ErrNotFound ELSE IF ok THEN "ok" ELSE ErrRouteDelete

\* closing a TUN device takes its routes with it
DropIfRoutes(table, i) == {r \in table : r.ifName # TunName(i)}

\* ---- Config and its defaults ----------------------------------------------------
\* log/slog levels, as xRayLogLevel passes them to Handler.Enabled
LevelDebug == -4
LevelInfo == 0
LevelWarn == 4
LevelError == 8

\* a *slog.Logger: nil, or a logger whose handler enables the levels >= level
NilLogger == [set |-> FALSE, level |-> LevelInfo]
Logger(l) == [set |-> TRUE, level |-> l]
HandlerLevels == {LevelDebug - 4, LevelDebug, LevelInfo, LevelWarn, LevelError, LevelError + 4}

\* DebugOptions: OutputDir, GatewayInterval (seconds) and VerbosePipe stand for
\* the string, the duration and the bool fields
DefaultGatewayInterval == 3
ZeroDebugOptions == [outputDir |-> "", gatewayInterval |-> 0, verbosePipe |-> FALSE]
defaultDebugOptions ==
    [outputDir |-> "debug-output", gatewayInterval |-> DefaultGatewayInterval,
     verbosePipe |-> TRUE]
DebugOptionsValues ==
    [outputDir : {"", "dir"}, gatewayInterval : {0, DefaultGatewayInterval + 2},
     verbosePipe : BOOLEAN]

\* DebugOptions.normalized
normalized(o) ==
    [o EXCEPT !.outputDir = IF @ = "" THEN "debug-output" ELSE @,
              !.gatewayInterval = IF @ <= 0 THEN DefaultGatewayInterval ELSE @]

\* the zero Config: nil pointers and slices are "", LogType_None is "None"
ZeroConfig ==
    [gatewayIP |-> "", inboundProxy |-> "", tunAddress |-> "", routesToTUN |-> "",
     tlsAllowInsecure |-> FALSE, logger |-> NilLogger, xrayLogType |-> "None",
     debug |-> FALSE, debugOptions |-> ZeroDebugOptions]

\* the Configs NewClientWithOpts is called with
Configs ==
    [gatewayIP : {"", "gw2"}, inboundProxy : {"", "proxy"}, tunAddress : {"", "addr"},
     routesToTUN : {"", "routes"}, tlsAllowInsecure : BOOLEAN,
     logger : {NilLogger} \cup {Logger(l) : l \in HandlerLevels},
     xrayLogType : {"None", "Console"}, debug : BOOLEAN,
     debugOptions : {ZeroDebugOptions, defaultDebugOptions,
                     [outputDir |-> "dir", gatewayInterval |-> 0, verbosePipe |-> FALSE]}]

\* the Config that NewClient builds, with gateway gw discovered
DefaultConfig(gw) ==
    [gatewayIP |-> gw, inboundProxy |-> "defaultInboundProxy",
     tunAddress |-> "defaultTUNAddress", routesToTUN |-> "DefaultRoutesToTUN",
     tlsAllowInsecure |-> FALSE, logger |-> Logger(LevelInfo), xrayLogType |-> "None",
     debug |-> FALSE, debugOptions |-> defaultDebugOptions]

\* Config.apply
apply(c, new) ==
    [gatewayIP |-> IF new.gatewayIP # "" THEN new.gatewayIP ELSE c.gatewayIP,
     inboundProxy |-> IF new.inboundProxy # "" THEN new.inboundProxy ELSE c.inboundProxy,
     tunAddress |-> IF new.tunAddress # "" THEN new.tunAddress ELSE c.tunAddress,
     logger |-> IF new.logger.set THEN new.logger ELSE c.logger,
     routesToTUN |-> IF new.routesToTUN # "" THEN new.routesToTUN ELSE c.routesToTUN,
     xrayLogType |-> IF new.xrayLogType # "None" THEN new.xrayLogType ELSE c.xrayLogType,
     debug |-> IF new.debug THEN TRUE ELSE c.debug,
     debugOptions |-> IF new.debugOptions # ZeroDebugOptions
                         THEN new.debugOptions ELSE c.debugOptions,
     tlsAllowInsecure |-> c.tlsAllowInsecure]

\* syncDebugState: the DebugOptions are normalized (debug.enabled is the model's
\* debugEnabled, set from the debug field by NewClientWithOpts)
syncDebugState(c) == [c EXCEPT !.debugOptions = normalized(@)]

\* the part of a Config the variable cfg holds
CfgFields(c) ==
    [inboundProxy |-> c.inboundProxy, tunAddress |-> c.tunAddress,
     routesToTUN |-> c.routesToTUN, tlsAllowInsecure |-> c.tlsAllowInsecure,
     logger |-> c.logger, xrayLogType |-> c.xrayLogType, debugOptions |-> c.debugOptions]

\* slog Handler.Enabled of a handler with minimum level h.level
Enabled(h, l) == l >= h.level

\* xRayLogLevel(c.cfg.Logger.Handler())
xRayLogLevel(h) ==
    IF Enabled(h, LevelDebug) THEN "Severity_Debug"
    ELSE IF Enabled(h, LevelInfo) THEN "Severity_Info"
    ELSE IF Enabled(h, LevelError) THEN "Severity_Error"
    ELSE IF Enabled(h, LevelWarn) THEN "Severity_Warning"
    ELSE "Severity_Unknown"

\* ---- Init: the state NewClient / NewClientWithOpts leave --------------------
\* the fields of a new Client besides its configuration, and the host
ClientInit ==
    /\ xInst = Nil
    /\ xSrvIP = ""
    /\ tunnel = NilTunnel
    /\ stopTunnel = Nil
    /\ osGateway = "gw1"
    /\ debugCancel = FALSE
    /\ debugCtxDone = FALSE
    /\ err = {}
    /\ engine = [i \in Ids |-> "none"]
    /\ tunDev = [i \in Ids |-> "none"]
    /\ \E pre \in SUBSET {RouteOpts(NoIf, "gw1", {<<ServerIP, 32>>})} :
          osRoutes = {HostRoute} \cup pre
    /\ gwChanges = 0
    /\ cancelled = {}
    /\ pipe = [i \in Ids |-> "none"]
    /\ pipeErr = [i \in Ids |-> ""]
    /\ watcher = "off"
    /\ oldRoute = NoRoute
    /\ ctxDone = FALSE
    /\ nConnect = 0
    /\ nDisconnect = 0
    /\ nConnOk = 0
    /\ nDiscSince = 0
    /\ ops = ZeroOps
    /\ res = NoRes
    /\ lastRet = [op |-> "none", err |-> {}]
    /\ lastLink = NoLink
    /\ onConnected = FALSE
    /\ routesBefore = {}
    /\ wDelLeft = FALSE
    /\ nRead = [i \in Ids |-> 0]
    /\ nWritten = [i \in Ids |-> 0]
    /\ severity = "unset"
    /\ ownReturn = {}
    /\ gwMu = [readers |-> {}, writer |-> "none"]
    /\ lpc = [p \in Procs |-> "idle"]
    /\ lret = [p \in Procs |-> "idle"]
    /\ ipCopy = [p \in Procs |-> NoIP]
    /\ newIP = ""
    /\ gwArr = "cfg"
    /\ ipOut = NoIP
    /\ lastRead = [i \in Ids |-> 0]
    /\ lastWrite = [i \in Ids |-> 0]
    /\ clock = 1
    /\ rpos = [i \in Ids |-> "idle"]
    /\ wpos = [i \in Ids |-> "idle"]
    /\ rret = [i \in Ids |-> NoIO]
    /\ wret = [i \in Ids |-> NoIO]
    /\ spos = "idle"
    /\ stats = ZeroStats
    /\ seen = {}

\* a client made by NewClient() or NewClientWithOpts(Config{Debug: true})
Init ==
    /\ pc = "idle"
    /\ ClientInit
    /\ gatewayIP = osGateway
    /\ debugEnabled \in BOOLEAN
    /\ newCfg = [ZeroConfig EXCEPT !.debug = debugEnabled]
    /\ cfg = CfgFields(DefaultConfig(osGateway))

\* a call returns to its caller with error set e (e = {} is nil)
Return(op, e) ==
    /\ pc' = "idle"
    /\ lastRet' = [op |-> op, err |-> e]

\* ---- Client.Connect -----------------------------------------------------------
\* lines 223-229: c.xInst, c.xCfg, err = c.createXrayProxy(link); line 362 hands
\* xRayLogLevel(c.cfg.Logger.Handler()) to the xray service it creates
ConnectCall(link) ==
    /\ pc = "idle"
    /\ nConnect < MaxCalls
    /\ LET id == nConnect + 1
           r == createXrayProxy(link, id)
       IN /\ nConnect' = id
          /\ xInst' = r.inst
          /\ xSrvIP' = r.ip
          /\ engine' = IF r.made THEN [engine EXCEPT ![id] = "created"] ELSE engine
          /\ severity' = xRayLogLevel(cfg.logger)
          /\ IF r.err # ""
                THEN Return("Connect", {r.err})
                ELSE /\ pc' = "c_start"
                     /\ UNCHANGED lastRet
    /\ ops' = ZeroOps
    /\ lastLink' = link
    /\ routesBefore' = osRoutes
    /\ nDiscSince' = 0
    /\ res' = NoRes
    /\ onConnected' = FALSE
    /\ wDelLeft' = FALSE
    /\ UNCHANGED <<ioVars, cfg, newCfg, ownReturn, fineVars, gwVars, tunnel, stopTunnel, gatewayIP, debugVars, err, tunDev, osRoutes,
                   osGateway, pipeVars, watcher, oldRoute, ctxVars, nDisconnect, nConnOk>>

\* lines 232-237: c.xInst.Start()
ConnectStart ==
    /\ pc = "c_start"
    /\ ops' = [ops EXCEPT !.start = @ + 1]
    /\ \E ok \in BOOLEAN :
          IF ok
             THEN /\ engine' = [engine EXCEPT ![xInst] = "started"]
                  /\ pc' = "c_tunNew"
                  /\ UNCHANGED lastRet
             ELSE /\ Return("Connect", {ErrStart})
                  /\ UNCHANGED engine
    /\ UNCHANGED <<auxVars, gwVars, clientVars, gatewayIP, debugVars, err, tunDev, osRoutes, osGateway,
                   pipeVars, watcherVars, ctxVars, countVars, res, lastLink,
                   onConnected, routesBefore>>

\* setupTunnel line 412: tun.New("", 1500); on failure c.tunnel gets the nil
\* *tun.Interface of line 242 and Connect returns
ConnectTunNew ==
    /\ pc = "c_tunNew"
    /\ ops' = [ops EXCEPT !.tunNew = @ + 1]
    /\ \E ok \in BOOLEAN :
          IF ok
             THEN /\ tunDev' = [tunDev EXCEPT ![nConnect] = "open"]
                  /\ pc' = "c_tunUp"
                  /\ UNCHANGED <<lastRet, tunnel>>
             ELSE /\ tunnel' = NilPtrTunnel
                  /\ Return("Connect", {ErrSetupTun})
                  /\ UNCHANGED tunDev
    /\ UNCHANGED <<auxVars, gwVars, xInst, xSrvIP, stopTunnel, gatewayIP, debugVars, err, engine, osRoutes,
                   osGateway, pipeVars, watcherVars, ctxVars, countVars, res,
                   lastLink, onConnected, routesBefore>>

\* setupTunnel line 417: ifc.Up(...)
ConnectTunUp ==
    /\ pc = "c_tunUp"
    /\ ops' = [ops EXCEPT !.tunUp = @ + 1]
    /\ \E ok \in BOOLEAN :
          IF ok
             THEN /\ pc' = "c_tunRoutes"
                  /\ UNCHANGED <<lastRet, tunnel>>
             ELSE /\ tunnel' = NilPtrTunnel
                  /\ Return("Connect", {ErrSetupTun})
    /\ UNCHANGED <<auxVars, gwVars, xInst, xSrvIP, stopTunnel, gatewayIP, debugVars, err, envVars,
                   pipeVars, watcherVars, ctxVars, countVars, res, lastLink, onConnected,
                   routesBefore>>

\* setupTunnel line 421: c.routes.Add(route.Opts{IfName: ifc.Name(), Routes: RoutesToTUN});
\* on success Connect line 248 wraps the interface: c.tunnel = newReaderMetrics(c.tunnel)
ConnectTunRoutes ==
    /\ pc = "c_tunRoutes"
    /\ \E ok \in BOOLEAN :
          /\ osRoutes' = RouteAdd(osRoutes, TunRoutes(nConnect), ok)
          /\ IF ok
                THEN /\ ops' = [ops EXCEPT !.addTun = @ + 1, !.addTunOk = @ + 1]
                     /\ tunnel' = newReaderMetrics(nConnect)
                     /\ pc' = "c_delDangling"
                     /\ UNCHANGED lastRet
                ELSE /\ ops' = [ops EXCEPT !.addTun = @ + 1]
                     /\ tunnel' = NilPtrTunnel
                     /\ Return("Connect", {ErrSetupTun})
    /\ UNCHANGED <<auxVars, gwVars, xInst, xSrvIP, stopTunnel, gatewayIP, debugVars, err, engine, tunDev,
                   osGateway, pipeVars, watcherVars, ctxVars, countVars, res,
                   lastLink, onConnected, routesBefore>>

\* Connect without the Delete of a dangling exception route
ConnectDeleteDangling_Skipped ==
    /\ pc = "c_delDangling"
    /\ pc' = "c_addExc"
    /\ UNCHANGED <<auxVars, gwVars, clientVars, gatewayIP, debugVars, err, envVars,
                   pipeVars, watcherVars, ctxVars, countVars, callVars>>

\* line 253: _ = c.routes.Delete(c.xrayToGatewayRoute()) // In case previous run failed.
ConnectDeleteDangling ==
    /\ pc = "c_delDangling"
    /\ ops' = [ops EXCEPT !.delExc = @ + 1]
    /\ \E ok \in BOOLEAN : osRoutes' = RouteDelete(osRoutes, xrayToGatewayRoute, ok)
    /\ pc' = "c_addExc"
    /\ UNCHANGED <<auxVars, gwVars, clientVars, gatewayIP, debugVars, err, engine, tunDev, osGateway,
                   pipeVars, watcherVars, ctxVars, countVars, res, lastRet,
                   lastLink, onConnected, routesBefore>>

\* Connect with the error of the exception-route Add ignored
ConnectAddException_IgnoreError ==
    /\ pc = "c_addExc"
    /\ \E ok \in BOOLEAN :
          /\ osRoutes' = RouteAdd(osRoutes, xrayToGatewayRoute, ok)
          /\ IF ok
                THEN ops' = [ops EXCEPT !.addExc = @ + 1, !.addExcOk = @ + 1]
                ELSE ops' = [ops EXCEPT !.addExc = @ + 1]
    /\ pc' = "c_spawn"
    /\ UNCHANGED <<auxVars, gwVars, clientVars, gatewayIP, debugVars, err, engine, tunDev, osGateway,
                   pipeVars, watcherVars, ctxVars, countVars, res, lastRet, lastLink,
                   onConnected, routesBefore>>

\* lines 255-260: err = c.routes.Add(c.xrayToGatewayRoute())
ConnectAddException ==
    /\ pc = "c_addExc"
    /\ \E ok \in BOOLEAN :
          /\ osRoutes' = RouteAdd(osRoutes, xrayToGatewayRoute, ok)
          /\ IF ok
                THEN /\ ops' = [ops EXCEPT !.addExc = @ + 1, !.addExcOk = @ + 1]
                     /\ pc' = "c_spawn"
                     /\ UNCHANGED lastRet
                ELSE /\ ops' = [ops EXCEPT !.addExc = @ + 1]
                     /\ Return("Connect", {ErrRouteException})
    /\ UNCHANGED <<auxVars, gwVars, clientVars, gatewayIP, debugVars, err, engine, tunDev, osGateway,
                   pipeVars, watcherVars, ctxVars, countVars, res, lastLink,
                   onConnected, routesBefore>>

\* startDebugging, debug.go lines 94-129 (the gateway monitor is the goroutine modelled)
startDebugging ==
    IF debugEnabled /\ ~debugCancel
       THEN /\ debugCancel' = TRUE
            /\ debugCtxDone' = FALSE
            /\ watcher' = "idle"
       ELSE UNCHANGED <<debugCancel, debugCtxDone, watcher>>

\* lines 263-281: ctx, c.stopTunnel = context.WithCancel(...); go func(){...}();
\* wg.Wait(); c.startDebugging(); return nil
ConnectSpawn ==
    /\ pc = "c_spawn"
    /\ stopTunnel' = nConnect
    /\ pipe' = [pipe EXCEPT ![nConnect] = "copying"]
    /\ ops' = [ops EXCEPT !.spawn = @ + 1]
    /\ startDebugging
    /\ nConnOk' = nConnOk + 1
    /\ Return("Connect", {})
    /\ UNCHANGED <<auxVars, gwVars, xInst, xSrvIP, tunnel, gatewayIP, debugEnabled, err, envVars, cancelled,
                   pipeErr, oldRoute, wDelLeft, ctxVars, nConnect, nDisconnect, nDiscSince,
                   res, lastLink, onConnected, routesBefore>>

\* ---- the pipe goroutine of Connect (lines 267-276) ---------------------------
\* c.pipe.Copy returns: on its own (nil or an error), or after its ctx was cancelled
PipeCopyReturns(i) ==
    /\ pipe[i] = "copying"
    /\ \E e \in (IF i \in cancelled THEN {"", ErrCanceled, ErrStop} ELSE {"", ErrStop}) :
          /\ pipeErr' = [pipeErr EXCEPT ![i] = e]
          /\ ownReturn' = IF i \notin cancelled /\ e # "" THEN ownReturn \cup {i}
                                                         ELSE ownReturn
    /\ pipe' = [pipe EXCEPT ![i] = "sending"]
    /\ UNCHANGED <<ioVars, cfg, newCfg, severity, fineVars, gwVars, pc, clientVars, gatewayIP, debugVars,
                   err, envVars, cancelled, watcherVars, ctxVars, countVars, callVars>>

\* ---- Client.Disconnect -----------------------------------------------------
\* Disconnect with its guard on c.xInst instead of c.stopTunnel
DisconnectCall_GuardXInst ==
    /\ pc = "idle"
    /\ nDisconnect' = nDisconnect + 1
    /\ nDiscSince' = nDiscSince + 1
    /\ ops' = ZeroOps
    /\ res' = NoRes
    /\ onConnected' = (lastRet.op = "Connect" /\ lastRet.err = {})
    /\ lastLink' = NoLink
    /\ IF xInst = Nil
          THEN Return("Disconnect", {})
          ELSE /\ pc' = "d_stopDebug"
               /\ UNCHANGED lastRet
    /\ UNCHANGED <<auxVars, clientVars, gatewayIP, debugVars, err, envVars, gwVars, pipeVars,
                   watcherVars, ctxVars, nConnect, nConnOk, routesBefore>>

\* lines 288-291: if c.stopTunnel == nil { return nil }
DisconnectCall ==
    /\ pc = "idle"
    /\ nDisconnect' = nDisconnect + 1
    /\ nDiscSince' = nDiscSince + 1
    /\ ops' = ZeroOps
    /\ res' = NoRes
    /\ onConnected' = (lastRet.op = "Connect" /\ lastRet.err = {})
    /\ lastLink' = NoLink
    /\ IF stopTunnel = Nil
          THEN Return("Disconnect", {})
          ELSE /\ pc' = "d_stopDebug"
               /\ UNCHANGED lastRet
    /\ UNCHANGED <<auxVars, clientVars, gatewayIP, debugVars, err, envVars, gwVars, pipeVars,
                   watcherVars, ctxVars, nConnect, nConnOk, routesBefore>>

\* stopDebugging, debug.go lines 131-135: return if cancel == nil, else cancel()
DisconnectStopDebugging ==
    /\ pc = "d_stopDebug"
    /\ IF ~debugCancel
          THEN /\ pc' = "d_stopTunnel"
               /\ UNCHANGED debugCtxDone
          ELSE /\ debugCtxDone' = TRUE
               /\ pc' = "d_join"
    /\ UNCHANGED <<auxVars, gwVars, clientVars, gatewayIP, debugEnabled, debugCancel, err, envVars, pipeVars,
                   watcherVars, ctxVars, countVars, callVars>>

\* stopDebugging without c.debug.wg.Wait()
DisconnectJoin_NoWait ==
    /\ pc = "d_join"
    /\ debugCancel' = FALSE
    /\ pc' = "d_stopTunnel"
    /\ UNCHANGED <<auxVars, gwVars, clientVars, gatewayIP, debugEnabled, debugCtxDone, err, envVars,
                   pipeVars, watcherVars, ctxVars, countVars, callVars>>

\* stopDebugging, debug.go lines 136-140: c.debug.wg.Wait(); c.debug.cancel = nil
DisconnectJoin ==
    /\ pc = "d_join"
    /\ watcher = "done"
    /\ spos = "idle"
    /\ watcher' = "off"
    /\ debugCancel' = FALSE
    /\ pc' = "d_stopTunnel"
    /\ UNCHANGED <<auxVars, gwVars, clientVars, gatewayIP, debugEnabled, debugCtxDone, err, envVars, pipeVars,
                   oldRoute, wDelLeft, ctxVars, countVars, callVars>>

\* Disconnect without c.stopTunnel()
DisconnectStopTunnel_NoCancel ==
    /\ pc = "d_stopTunnel"
    /\ pc' = "d_xClose"
    /\ UNCHANGED <<auxVars, gwVars, clientVars, gatewayIP, debugVars, err, envVars, pipeVars,
                   watcherVars, ctxVars, countVars, callVars>>

\* line 294: c.stopTunnel()
DisconnectStopTunnel ==
    /\ pc = "d_stopTunnel"
    /\ cancelled' = cancelled \cup {stopTunnel}
    /\ ops' = [ops EXCEPT !.cancel = @ + 1]
    /\ pc' = "d_xClose"
    /\ UNCHANGED <<auxVars, gwVars, clientVars, gatewayIP, debugVars, err, envVars, pipe, pipeErr,
                   watcherVars, ctxVars, countVars, res, lastRet, lastLink, onConnected,
                   routesBefore>>

\* line 295, first argument: c.xInst.Close() is entered; a nil xInst panics
DisconnectXCloseCall ==
    /\ pc = "d_xClose"
    /\ IF xInst = Nil
          THEN /\ pc' = "panicked"
               /\ UNCHANGED ops
          ELSE /\ pc' = "d_xCloseIn"
               /\ ops' = [ops EXCEPT !.xClose = @ + 1]
    /\ UNCHANGED <<auxVars, gwVars, clientVars, gatewayIP, debugVars, err, envVars, pipeVars, watcherVars,
                   ctxVars, countVars, res, lastRet, lastLink, onConnected, routesBefore>>

\* Disconnect returning at once when c.xInst.Close() fails
DisconnectXCloseReturn_ShortCircuit ==
    /\ pc = "d_xCloseIn"
    /\ \E ok \in BOOLEAN :
          /\ engine' = IF ok THEN [engine EXCEPT ![xInst] = "closed"] ELSE engine
          /\ res' = [res EXCEPT !.x = IF ok THEN "ok" ELSE ErrInstanceClose]
          /\ IF ok
                THEN /\ pc' = "d_tClose"
                     /\ UNCHANGED lastRet
                ELSE Return("Disconnect", {ErrInstanceClose})
    /\ UNCHANGED <<auxVars, gwVars, clientVars, gatewayIP, debugVars, err, tunDev, osRoutes, osGateway,
                   pipeVars, watcherVars, ctxVars, countVars, ops, lastLink, onConnected,
                   routesBefore>>

\* c.xInst.Close() returns
DisconnectXCloseReturn ==
    /\ pc = "d_xCloseIn"
    /\ \E ok \in BOOLEAN :
          /\ engine' = IF ok THEN [engine EXCEPT ![xInst] = "closed"] ELSE engine
          /\ res' = [res EXCEPT !.x = IF ok THEN "ok" ELSE ErrInstanceClose]
    /\ pc' = "d_tClose"
    /\ UNCHANGED <<auxVars, gwVars, clientVars, gatewayIP, debugVars, err, tunDev, osRoutes, osGateway,
                   pipeVars, watcherVars, ctxVars, countVars, ops, lastRet,
                   lastLink, onConnected, routesBefore>>

\* line 295, second argument: c.tunnel.Close() is entered.  On the nil
\* *tun.Interface left by a failed setupTunnel the call either panics or fails.
DisconnectTCloseCall ==
    /\ pc = "d_tClose"
    /\ IF tunnel.kind = "metrics"
          THEN /\ pc' = "d_tCloseIn"
               /\ ops' = [ops EXCEPT !.tClose = @ + 1]
               /\ UNCHANGED res
          ELSE \/ /\ pc' = "panicked"
                  /\ UNCHANGED <<ops, res>>
               \/ /\ tunnel.kind = "nilptr"
                  /\ pc' = "d_rDel"
                  /\ ops' = [ops EXCEPT !.tClose = @ + 1]
                  /\ res' = [res EXCEPT !.t = ErrTunClose]
    /\ UNCHANGED <<auxVars, gwVars, clientVars, gatewayIP, debugVars, err, envVars, pipeVars, watcherVars,
                   ctxVars, countVars, lastRet, lastLink, onConnected, routesBefore>>

\* Disconnect dropping c.tunnel (c.tunnel = nil) once it is closed
DisconnectTCloseReturn_DropTunnel ==
    /\ pc = "d_tCloseIn"
    /\ \E ok \in BOOLEAN :
          /\ tunDev' = IF ok THEN [tunDev EXCEPT ![tunnel.dev] = "closed"] ELSE tunDev
          /\ osRoutes' = IF ok THEN DropIfRoutes(osRoutes, tunnel.dev) ELSE osRoutes
          /\ res' = [res EXCEPT !.t = IF ok THEN "ok" ELSE ErrTunClose]
    /\ tunnel' = NilTunnel
    /\ pc' = "d_rDel"
    /\ UNCHANGED <<auxVars, gwVars, xInst, xSrvIP, stopTunnel, gatewayIP, debugVars, err, engine,
                   osGateway, pipeVars, watcherVars, ctxVars, countVars, ops, lastRet, lastLink,
                   onConnected, routesBefore>>

\* c.tunnel.Close() returns (readerMetrics.Close -> the device's Close); the
\* routes through a closed device vanish with it
DisconnectTCloseReturn ==
    /\ pc = "d_tCloseIn"
    /\ \E ok \in BOOLEAN :
          /\ tunDev' = IF ok THEN [tunDev EXCEPT ![tunnel.dev] = "closed"] ELSE tunDev
          /\ osRoutes' = IF ok THEN DropIfRoutes(osRoutes, tunnel.dev) ELSE osRoutes
          /\ res' = [res EXCEPT !.t = IF ok THEN "ok" ELSE ErrTunClose]
    /\ pc' = "d_rDel"
    /\ UNCHANGED <<auxVars, gwVars, clientVars, gatewayIP, debugVars, err, engine, osGateway,
                   pipeVars, watcherVars, ctxVars, countVars, ops, lastRet, lastLink,
                   onConnected, routesBefore>>

\* line 295, third argument: c.routes.Delete(c.xrayToGatewayRoute()) is entered
DisconnectRDelCall ==
    /\ pc = "d_rDel"
    /\ ops' = [ops EXCEPT !.delExc = @ + 1]
    /\ pc' = "d_rDelIn"
    /\ UNCHANGED <<auxVars, gwVars, clientVars, gatewayIP, debugVars, err, envVars, pipeVars, watcherVars,
                   ctxVars, countVars, res, lastRet, lastLink, onConnected, routesBefore>>

\* Disconnect without the Delete of the exception route
DisconnectRDelReturn_NoDelete ==
    /\ pc = "d_rDelIn"
    /\ res' = [res EXCEPT !.r = "ok"]
    /\ err' = Join({res.x, res.t})
    /\ ops' = [ops EXCEPT !.wait = @ + 1]
    /\ pc' = "d_wait"
    /\ UNCHANGED <<auxVars, gwVars, clientVars, gatewayIP, debugVars, envVars, pipeVars, watcherVars,
                   ctxVars, countVars, lastRet, lastLink, onConnected, routesBefore>>

\* routes.Delete returns; err := errors.Join(...); lines 298-300: the timeout
\* context is created and the select is entered
DisconnectRDelReturn ==
    /\ pc = "d_rDelIn"
    /\ \E ok \in BOOLEAN :
          LET r == RouteDeleteResult(osRoutes, xrayToGatewayRoute, ok)
          IN /\ osRoutes' = RouteDelete(osRoutes, xrayToGatewayRoute, ok)
             /\ res' = [res EXCEPT !.r = r]
             /\ err' = Join({res.x, res.t, r})
    /\ ops' = [ops EXCEPT !.wait = @ + 1]
    /\ pc' = "d_wait"
    /\ UNCHANGED <<auxVars, gwVars, clientVars, gatewayIP, debugVars, engine, tunDev, osGateway,
                   pipeVars, watcherVars, ctxVars, countVars, lastRet, lastLink,
                   onConnected, routesBefore>>

\* lines 301-302 with the send of line 270: tunErr := <-c.tunnelStopped
DisconnectRecv(i) ==
    /\ pc = "d_wait"
    /\ pipe[i] = "sending"
    /\ pipe' = [pipe EXCEPT ![i] = "done"]
    /\ res' = [res EXCEPT !.p = IF pipeErr[i] = "" THEN "ok" ELSE pipeErr[i]]
    /\ pipeErr' = [pipeErr EXCEPT ![i] = ""]
    /\ Return("Disconnect", Join({pipeErr[i]}) \cup err)
    /\ err' = {}
    /\ ctxDone' = FALSE
    /\ ownReturn' = {}
    /\ UNCHANGED <<ioVars, cfg, newCfg, severity, fineVars, gwVars, clientVars, gatewayIP, debugVars,
                   envVars, cancelled, watcherVars, countVars, ops, lastLink, onConnected,
                   routesBefore>>

\* Disconnect with err = ctx.Err() in the deadline branch, dropping the joined errors
DisconnectDeadline_DropErr ==
    /\ pc = "d_wait"
    /\ ctxDone
    /\ res' = [res EXCEPT !.p = "deadline"]
    /\ Return("Disconnect", {ErrDeadline})
    /\ err' = {}
    /\ ctxDone' = FALSE
    /\ ownReturn' = {}
    /\ UNCHANGED <<ioVars, cfg, newCfg, severity, fineVars, gwVars, clientVars, gatewayIP, debugVars,
                   envVars, pipeVars, watcherVars, countVars, ops, lastLink, onConnected,
                   routesBefore>>

\* lines 303-304: case <-ctx.Done(): err = errors.Join(ctx.Err(), err)
DisconnectDeadline ==
    /\ pc = "d_wait"
    /\ ctxDone
    /\ res' = [res EXCEPT !.p = "deadline"]
    /\ Return("Disconnect", {ErrDeadline} \cup err)
    /\ err' = {}
    /\ ctxDone' = FALSE
    /\ ownReturn' = {}
    /\ UNCHANGED <<ioVars, cfg, newCfg, severity, fineVars, gwVars, clientVars, gatewayIP, debugVars,
                   envVars, pipeVars, watcherVars, countVars, ops, lastLink, onConnected,
                   routesBefore>>

\* the caller's deadline fires while Disconnect runs, before the select
CallerDeadline ==
    /\ pc \in DisconnectPcs \ {"d_wait"}
    /\ ~ctxDone
    /\ ctxDone' = TRUE
    /\ UNCHANGED <<auxVars, gwVars, pc, clientVars, gatewayIP, debugVars, err, envVars, pipeVars,
                   watcherVars, countVars, callVars>>

\* line 298: the disconnectTimeout timer, armed when the select is reached,
\* fires and ends the derived context
TimeoutFires ==
    /\ pc = "d_wait"
    /\ ~ctxDone
    /\ ctxDone' = TRUE
    /\ UNCHANGED <<auxVars, gwVars, pc, clientVars, gatewayIP, debugVars, err, envVars, pipeVars,
                   watcherVars, countVars, callVars>>

\* ---- the host ---------------------------------------------------------------
\* the default gateway of the host changes while the client is connected
GatewayChange ==
    /\ gwChanges < MaxGwChanges
    /\ gwChanges' = gwChanges + 1
    /\ pc = "idle"
    /\ lastRet = [op |-> "Connect", err |-> {}]
    /\ osGateway' \in Gateways \ {osGateway}
    /\ UNCHANGED <<auxVars, pc, clientVars, gatewayIP, debugVars, err, engine, tunDev, osRoutes,
                   pipeVars, watcherVars, ctxVars, countVars, callVars>>

\* ---- gatewayMonitor (debug.go lines 195-254) ---------------------------------
\* a tick on which validateGateway finds a different gateway: updateGatewayIP
\* builds oldRoute and swaps the gateway under the write lock
validateGateway ==
    /\ watcher = "idle"
    /\ osGateway # currentGatewayIP
    /\ oldRoute' = xrayToGatewayRoute
    /\ gatewayIP' = osGateway
    /\ watcher' = "u_delete"
    /\ UNCHANGED <<auxVars, gwVars, pc, clientVars, debugVars, err, envVars, pipeVars, wDelLeft, ctxVars,
                   countVars, callVars>>

\* updateGatewayIP line 247: c.routes.Delete(oldRoute), the error is only logged
updateGatewayIPDelete ==
    /\ watcher = "u_delete"
    /\ \E ok \in BOOLEAN :
          /\ osRoutes' = RouteDelete(osRoutes, oldRoute, ok)
          /\ wDelLeft' = (wDelLeft \/ oldRoute \in RouteDelete(osRoutes, oldRoute, ok))
    /\ oldRoute' = NoRoute
    /\ watcher' = "u_add"
    /\ UNCHANGED <<auxVars, gwVars, pc, clientVars, gatewayIP, debugVars, err, engine, tunDev, osGateway,
                   pipeVars, ctxVars, countVars, callVars>>

\* updateGatewayIP stopping the tunnel when the Add of the new route fails
updateGatewayIPAdd_StopTunnel ==
    /\ watcher = "u_add"
    /\ \E ok \in BOOLEAN :
          /\ osRoutes' = RouteAdd(osRoutes, xrayToGatewayRoute, ok)
          /\ cancelled' = IF ok THEN cancelled ELSE cancelled \cup {stopTunnel}
    /\ watcher' = "idle"
    /\ UNCHANGED <<auxVars, gwVars, pc, clientVars, gatewayIP, debugVars, err, engine, tunDev,
                   osGateway, pipe, pipeErr, oldRoute, wDelLeft, ctxVars, countVars, callVars>>

\* updateGatewayIP line 251: c.routes.Add(c.xrayToGatewayRoute()), the error is only logged
updateGatewayIPAdd ==
    /\ watcher = "u_add"
    /\ \E ok \in BOOLEAN : osRoutes' = RouteAdd(osRoutes, xrayToGatewayRoute, ok)
    /\ watcher' = "idle"
    /\ UNCHANGED <<auxVars, gwVars, pc, clientVars, gatewayIP, debugVars, err, engine, tunDev, osGateway,
                   pipeVars, oldRoute, wDelLeft, ctxVars, countVars, callVars>>

\* gatewayMonitor lines 203-204: case <-c.debug.ctx.Done(): return
gatewayMonitorExit ==
    /\ watcher = "idle"
    /\ debugCtxDone
    /\ watcher' = "done"
    /\ UNCHANGED <<auxVars, gwVars, pc, clientVars, gatewayIP, debugVars, err, envVars, pipeVars, oldRoute,
                   wDelLeft, ctxVars, countVars, callVars>>

\* ---- construction ---------------------------------------------------------
\* NewClientWithOpts (lines 182-193): NewClient(), client.cfg.apply(&cfg),
\* client.syncDebugState()
NewClientWithOpts ==
    /\ pc = "new"
    /\ LET c == syncDebugState(apply(DefaultConfig(osGateway), newCfg))
       IN /\ gatewayIP' = c.gatewayIP
          /\ debugEnabled' = c.debug
          /\ cfg' = CfgFields(c)
    /\ pc' = "idle"
    /\ UNCHANGED <<clientVars, debugCancel, debugCtxDone, err, envVars, gwVars, pipeVars,
                   watcherVars, ctxVars, countVars, callVars, ioVars, newCfg, severity,
                   ownReturn, fineVars>>

\* ---- traffic through the TUN device (metrics.go) -----------------------------
\* the bytes counted so far by all wrappers
TotalBytes ==
    LET sum[i \in 0..MaxCalls] ==
            IF i = 0 THEN 0 ELSE nRead[i] + nWritten[i] + sum[i - 1]
    IN sum[MaxCalls]

\* what a Read or Write of a TUN device gives: an error (-1), or the number n
\* of bytes moved; a device that is not open gives an error
DeviceResults(i) == IF tunDev[i] = "open" THEN -1..(MaxBytes - TotalBytes) ELSE {-1}

\* readerMetrics.Read with nRead.Store(n) for nRead.Add(n)
TunRead_Store(i) ==
    /\ pipe[i] = "copying"
    /\ \E n \in DeviceResults(i) :
          /\ nRead' = IF n >= 0 THEN [nRead EXCEPT ![i] = n] ELSE nRead
          /\ lastRead' = IF n >= 0 THEN [lastRead EXCEPT ![i] = atomicTimeStore(Time(clock))]
                                   ELSE lastRead
    /\ UNCHANGED <<pc, clientVars, gatewayIP, debugVars, err, envVars, gwVars, pipeVars,
                   watcherVars, ctxVars, countVars, callVars, nWritten, cfg, newCfg,
                   severity, ownReturn, lockVars, lastWrite, statVars>>

\* readerMetrics.Read (metrics.go lines 39-47), called by pipe.Copy of pipe i on the
\* wrapper of device i, as one step: when the device's Read gives no error, n bytes
\* are counted and the time is stored (a Read of no bytes is left to the steps
\* rmReadAdd and rmReadStore)
TunRead(i) ==
    /\ pipe[i] = "copying"
    /\ \E n \in DeviceResults(i) \ {0} :
          /\ nRead' = IF n >= 0 THEN [nRead EXCEPT ![i] = @ + n] ELSE nRead
          /\ lastRead' = IF n >= 0 THEN [lastRead EXCEPT ![i] = atomicTimeStore(Time(clock))]
                                   ELSE lastRead
    /\ UNCHANGED <<pc, clientVars, gatewayIP, debugVars, err, envVars, gwVars, pipeVars,
                   watcherVars, ctxVars, countVars, callVars, nWritten, cfg, newCfg,
                   severity, ownReturn, lockVars, lastWrite, statVars>>

\* readerMetrics.Write (metrics.go lines 49-57)
TunWrite(i) ==
    /\ pipe[i] = "copying"
    /\ \E n \in DeviceResults(i) \ {0} :
          /\ nWritten' = IF n >= 0 THEN [nWritten EXCEPT ![i] = @ + n] ELSE nWritten
          /\ lastWrite' = IF n >= 0 THEN [lastWrite EXCEPT ![i] = atomicTimeStore(Time(clock))]
                                    ELSE lastWrite
    /\ UNCHANGED <<pc, clientVars, gatewayIP, debugVars, err, envVars, gwVars, pipeVars,
                   watcherVars, ctxVars, countVars, callVars, nRead, cfg, newCfg,
                   severity, ownReturn, lockVars, lastRead, statVars>>

\* Client.BytesRead / Client.BytesWritten (lines 319-334): 0 on a nil tunnel, the
\* counter of the wrapper otherwise; on the nil *tun.Interface of a failed
\* setupTunnel the type assertion panics and no value is returned (-1 here)
BytesRead ==
    IF tunnel.kind = "nil" THEN 0
    ELSE IF tunnel.kind = "metrics" THEN nRead[tunnel.dev] ELSE -1
BytesWritten ==
    IF tunnel.kind = "nil" THEN 0
    ELSE IF tunnel.kind = "metrics" THEN nWritten[tunnel.dev] ELSE -1

\* ---- the gateway lock (debug.go lines 211-254, GatewayIP lines 197-203) ----------
\* what the code that takes gwMu leaves alone, besides the gateway and the routes
lockFrame == <<pc, clientVars, debugVars, err, engine, tunDev, osGateway, gwVars, pipeVars,
               watcher, ctxVars, countVars, callVars, ioVars, cfg, newCfg, severity,
               ownReturn, stampVars, statVars>>

\* currentGatewayIP line 228: c.gwMu.RLock(), which waits while a writer holds gwMu
cgRLock(p) ==
    /\ lpc[p] = "cg_rlock"
    /\ gwMu.writer = "none"
    /\ gwMu' = [gwMu EXCEPT !.readers = @ \cup {p}]
    /\ lpc' = [lpc EXCEPT ![p] = "cg_copy"]
    /\ UNCHANGED <<lockFrame, gatewayIP, osRoutes, oldRoute, wDelLeft, lret, ipCopy, newIP,
                   gwArr, ipOut>>

\* currentGatewayIP returning *c.cfg.GatewayIP itself
cgCopy_NoCopy(p) ==
    /\ lpc[p] = "cg_copy"
    /\ ipCopy' = [ipCopy EXCEPT ![p] = [val |-> gatewayIP, arr |-> gwArr]]
    /\ lpc' = [lpc EXCEPT ![p] = "cg_runlock"]
    /\ UNCHANGED <<lockFrame, gatewayIP, osRoutes, oldRoute, wDelLeft, gwMu, lret, newIP,
                   gwArr, ipOut>>

\* currentGatewayIP lines 230-235: ipCopy := make(net.IP, len); copy(ipCopy, *c.cfg.GatewayIP)
cgCopy(p) ==
    /\ lpc[p] = "cg_copy"
    /\ ipCopy' = [ipCopy EXCEPT ![p] = [val |-> gatewayIP, arr |-> <<"copy", p>>]]
    /\ lpc' = [lpc EXCEPT ![p] = "cg_runlock"]
    /\ UNCHANGED <<lockFrame, gatewayIP, osRoutes, oldRoute, wDelLeft, gwMu, lret, newIP,
                   gwArr, ipOut>>

\* currentGatewayIP without the deferred RUnlock
cgRUnlock_KeepLock(p) ==
    /\ lpc[p] = "cg_runlock"
    /\ lpc' = [lpc EXCEPT ![p] = lret[p]]
    /\ UNCHANGED <<lockFrame, gatewayIP, osRoutes, oldRoute, wDelLeft, gwMu, lret, ipCopy,
                   newIP, gwArr, ipOut>>

\* currentGatewayIP lines 229, 237: return ipCopy, the deferred c.gwMu.RUnlock() runs
cgRUnlock(p) ==
    /\ lpc[p] = "cg_runlock"
    /\ gwMu' = [gwMu EXCEPT !.readers = @ \ {p}]
    /\ lpc' = [lpc EXCEPT ![p] = lret[p]]
    /\ UNCHANGED <<lockFrame, gatewayIP, osRoutes, oldRoute, wDelLeft, lret, ipCopy, newIP,
                   gwArr, ipOut>>

\* Client.GatewayIP() is called (line 198): c.currentGatewayIP()
GatewayIPCall ==
    /\ lpc["api"] = "idle"
    /\ lpc' = [lpc EXCEPT !["api"] = "cg_rlock"]
    /\ lret' = [lret EXCEPT !["api"] = "a_return"]
    /\ UNCHANGED <<lockFrame, gatewayIP, osRoutes, oldRoute, wDelLeft, gwMu, ipCopy, newIP,
                   gwArr, ipOut>>

\* Client.GatewayIP() returns ip to its caller (lines 198-202)
GatewayIPReturn ==
    /\ lpc["api"] = "a_return"
    /\ ipOut' = ipCopy["api"]
    /\ lpc' = [lpc EXCEPT !["api"] = "idle"]
    /\ UNCHANGED <<lockFrame, gatewayIP, osRoutes, oldRoute, wDelLeft, gwMu, lret, ipCopy,
                   newIP, gwArr>>

\* the caller overwrites the bytes of the net.IP it was given; they are the
\* client's gateway when the array is the one *c.cfg.GatewayIP points into
CallerMutatesIP ==
    /\ lpc["api"] = "idle"
    /\ ipOut.arr # "none"
    /\ ipOut.val # "mutated"
    /\ ipOut' = [ipOut EXCEPT !.val = "mutated"]
    /\ gatewayIP' = IF ipOut.arr = gwArr THEN "mutated" ELSE gatewayIP
    /\ UNCHANGED <<lockFrame, osRoutes, oldRoute, wDelLeft, gwMu, lpc, lret, ipCopy, newIP,
                   gwArr>>

\* gatewayMonitor lines 205-206 and validateGateway line 212: a tick, on which
\* gateway.DiscoverGateway() is called
gmTick ==
    /\ watcher = "idle"
    /\ lpc["mon"] = "idle"
    /\ lpc' = [lpc EXCEPT !["mon"] = "discover"]
    /\ UNCHANGED <<lockFrame, gatewayIP, osRoutes, oldRoute, wDelLeft, gwMu, lret, ipCopy,
                   newIP, gwArr, ipOut>>

\* validateGateway lines 212-218: DiscoverGateway returns, with an error (return)
\* or with the host's gateway, and c.currentGatewayIP() is called
gmDiscover ==
    /\ lpc["mon"] = "discover"
    /\ \E ok \in BOOLEAN :
          IF ok
             THEN /\ newIP' = osGateway
                  /\ lpc' = [lpc EXCEPT !["mon"] = "cg_rlock"]
                  /\ lret' = [lret EXCEPT !["mon"] = "compare"]
             ELSE /\ lpc' = [lpc EXCEPT !["mon"] = "idle"]
                  /\ UNCHANGED <<newIP, lret>>
    /\ UNCHANGED <<lockFrame, gatewayIP, osRoutes, oldRoute, wDelLeft, gwMu, ipCopy, gwArr,
                   ipOut>>

\* validateGateway lines 219-224, updateGatewayIP line 241: return when the gateway
\* is the same, else updateGatewayIP(newGateway), which calls xrayToGatewayRoute
gmCompare ==
    /\ lpc["mon"] = "compare"
    /\ IF ipCopy["mon"].val # "" /\ newIP = ipCopy["mon"].val
          THEN /\ lpc' = [lpc EXCEPT !["mon"] = "idle"]
               /\ UNCHANGED lret
          ELSE /\ lpc' = [lpc EXCEPT !["mon"] = "cg_rlock"]
               /\ lret' = [lret EXCEPT !["mon"] = "oldRoute"]
    /\ UNCHANGED <<lockFrame, gatewayIP, osRoutes, oldRoute, wDelLeft, gwMu, ipCopy, newIP,
                   gwArr, ipOut>>

\* updateGatewayIP lines 241-243: oldRoute := c.xrayToGatewayRoute(); c.gwMu.Lock(),
\* which waits while gwMu has a reader or a writer
gmLock ==
    /\ lpc["mon"] = "oldRoute"
    /\ gwMu = [readers |-> {}, writer |-> "none"]
    /\ oldRoute' = RouteOpts(NoIf, ipCopy["mon"].val, {<<xSrvIP, 32>>})
    /\ gwMu' = [gwMu EXCEPT !.writer = "mon"]
    /\ lpc' = [lpc EXCEPT !["mon"] = "swap"]
    /\ UNCHANGED <<lockFrame, gatewayIP, osRoutes, wDelLeft, lret, ipCopy, newIP, gwArr,
                   ipOut>>

\* updateGatewayIP line 244: c.cfg.GatewayIP = &newIP
gmSwap ==
    /\ lpc["mon"] = "swap"
    /\ gatewayIP' = newIP
    /\ gwArr' = "discovered"
    /\ lpc' = [lpc EXCEPT !["mon"] = "unlock"]
    /\ UNCHANGED <<lockFrame, osRoutes, oldRoute, wDelLeft, gwMu, lret, ipCopy, newIP, ipOut>>

\* updateGatewayIP lines 245-247: c.gwMu.Unlock(); c.routes.Delete(oldRoute) is called
gmUnlock ==
    /\ lpc["mon"] = "unlock"
    /\ gwMu' = [gwMu EXCEPT !.writer = "none"]
    /\ lpc' = [lpc EXCEPT !["mon"] = "delete"]
    /\ UNCHANGED <<lockFrame, gatewayIP, osRoutes, oldRoute, wDelLeft, lret, ipCopy, newIP,
                   gwArr, ipOut>>

\* updateGatewayIP lines 247-251: routes.Delete returns, its error is only logged;
\* c.xrayToGatewayRoute() is called for the Add
gmDelete ==
    /\ lpc["mon"] = "delete"
    /\ \E ok \in BOOLEAN :
          /\ osRoutes' = RouteDelete(osRoutes, oldRoute, ok)
          /\ wDelLeft' = (wDelLeft \/ oldRoute \in RouteDelete(osRoutes, oldRoute, ok))
    /\ oldRoute' = NoRoute
    /\ lpc' = [lpc EXCEPT !["mon"] = "cg_rlock"]
    /\ lret' = [lret EXCEPT !["mon"] = "add"]
    /\ UNCHANGED <<lockFrame, gatewayIP, gwMu, ipCopy, newIP, gwArr, ipOut>>

\* updateGatewayIP lines 251-253: routes.Add(the route xrayToGatewayRoute built) is
\* called and returns, its error is only logged
gmAdd ==
    /\ lpc["mon"] = "add"
    /\ \E ok \in BOOLEAN :
          osRoutes' = RouteAdd(osRoutes, RouteOpts(NoIf, ipCopy["mon"].val, {<<xSrvIP, 32>>}), ok)
    /\ lpc' = [lpc EXCEPT !["mon"] = "idle"]
    /\ UNCHANGED <<lockFrame, gatewayIP, oldRoute, wDelLeft, gwMu, lret, ipCopy, newIP, gwArr,
                   ipOut>>

\* ---- readerMetrics at the grain of its atomic operations (metrics.go) -------
\* the host's clock advances
ClockTick ==
    /\ clock < MaxClock
    /\ clock' = clock + 1
    /\ UNCHANGED <<pc, clientVars, gatewayIP, debugVars, err, envVars, gwVars, pipeVars,
                   watcherVars, ctxVars, countVars, callVars, ioVars, cfg, newCfg, severity,
                   ownReturn, lockVars, stampVars, rpos, wpos, rret, wret, spos, stats, seen>>

\* what the steps of Read, Write and Stats leave alone
metricsFrame == <<pc, clientVars, gatewayIP, debugVars, err, envVars, gwVars, pipeVars,
                  watcherVars, ctxVars, countVars, callVars, cfg, newCfg, severity,
                  ownReturn, lockVars, clock>>

\* the four fields of the wrapper of device i
Fields(i) == <<nRead[i], nWritten[i], lastRead[i], lastWrite[i]>>

\* the positions of the resource monitor inside Stats, after its first load
InStats == {"nWritten", "lastRead", "lastWrite"}

\* a Stats call that is running on the wrapper of device i sees its fields change
Observe(i) ==
    seen' = IF spos \in InStats /\ tunnel.dev = i THEN seen \cup {Fields(i)'} ELSE seen

\* readerMetrics.Read storing the time in lastWrite
rmReadStore_WriteStamp(i) ==
    /\ rpos[i] = "store"
    /\ lastWrite' = [lastWrite EXCEPT ![i] = atomicTimeStore(Time(clock))]
    /\ rpos' = [rpos EXCEPT ![i] = "idle"]
    /\ rret' = [rret EXCEPT ![i] = NoIO]
    /\ UNCHANGED <<metricsFrame, ioVars, lastRead, wpos, wret, spos, stats>>
    /\ Observe(i)

\* readerMetrics.Read lines 40-42: n, err = s.ReadWriteCloser.Read(p); with an error
\* Read returns, without one s.nRead.Add(int64(n))
rmReadAdd(i) ==
    /\ pipe[i] = "copying"
    /\ rpos[i] = "idle"
    /\ \E n \in DeviceResults(i) :
          IF n >= 0
             THEN /\ nRead' = [nRead EXCEPT ![i] = @ + n]
                  /\ rpos' = [rpos EXCEPT ![i] = "store"]
                  /\ rret' = [rret EXCEPT ![i] = [n |-> n, err |-> FALSE]]
             ELSE /\ rret' = [rret EXCEPT ![i] = [n |-> 0, err |-> TRUE]]
                  /\ UNCHANGED <<nRead, rpos>>
    /\ UNCHANGED <<metricsFrame, nWritten, stampVars, wpos, wret, spos, stats>>
    /\ Observe(i)

\* readerMetrics.Read lines 43-46: s.lastRead.Store(time.Now()); return n, err
rmReadStore(i) ==
    /\ rpos[i] = "store"
    /\ lastRead' = [lastRead EXCEPT ![i] = atomicTimeStore(Time(clock))]
    /\ rpos' = [rpos EXCEPT ![i] = "idle"]
    /\ rret' = [rret EXCEPT ![i] = NoIO]
    /\ UNCHANGED <<metricsFrame, ioVars, lastWrite, wpos, wret, spos, stats>>
    /\ Observe(i)

\* readerMetrics.Write lines 50-52
rmWriteAdd(i) ==
    /\ pipe[i] = "copying"
    /\ wpos[i] = "idle"
    /\ \E n \in DeviceResults(i) :
          IF n >= 0
             THEN /\ nWritten' = [nWritten EXCEPT ![i] = @ + n]
                  /\ wpos' = [wpos EXCEPT ![i] = "store"]
                  /\ wret' = [wret EXCEPT ![i] = [n |-> n, err |-> FALSE]]
             ELSE /\ wret' = [wret EXCEPT ![i] = [n |-> 0, err |-> TRUE]]
                  /\ UNCHANGED <<nWritten, wpos>>
    /\ UNCHANGED <<metricsFrame, nRead, stampVars, rpos, rret, spos, stats>>
    /\ Observe(i)

\* readerMetrics.Write lines 53-56: s.lastWrite.Store(time.Now()); return n, err
rmWriteStore(i) ==
    /\ wpos[i] = "store"
    /\ lastWrite' = [lastWrite EXCEPT ![i] = atomicTimeStore(Time(clock))]
    /\ wpos' = [wpos EXCEPT ![i] = "idle"]
    /\ wret' = [wret EXCEPT ![i] = NoIO]
    /\ UNCHANGED <<metricsFrame, ioVars, lastRead, rpos, rret, spos, stats>>
    /\ Observe(i)

\* debug.go lines 178-179 and Stats line 66: the resource monitor, a goroutine of
\* startDebugging that stopDebugging waits for, calls rm.Stats() on c.tunnel, which
\* does its first load, int(s.nRead.Load())
StatsLoadRead ==
    /\ spos = "idle"
    /\ debugCancel
    /\ tunnel.kind = "metrics"
    /\ stats' = [ZeroStats EXCEPT !.bytesRead = nRead[tunnel.dev]]
    /\ seen' = {Fields(tunnel.dev)}
    /\ spos' = "nWritten"
    /\ UNCHANGED <<metricsFrame, ioVars, stampVars, rpos, wpos, rret, wret>>

\* Stats line 67: int(s.nWritten.Load())
StatsLoadWritten ==
    /\ spos = "nWritten"
    /\ stats' = [stats EXCEPT !.bytesWritten = nWritten[tunnel.dev]]
    /\ spos' = "lastRead"
    /\ UNCHANGED <<metricsFrame, ioVars, stampVars, rpos, wpos, rret, wret, seen>>

\* Stats line 68: s.lastRead.Load()
StatsLoadLastRead ==
    /\ spos = "lastRead"
    /\ stats' = [stats EXCEPT !.lastReadAt = atomicTimeLoad(lastRead[tunnel.dev])]
    /\ spos' = "lastWrite"
    /\ UNCHANGED <<metricsFrame, ioVars, stampVars, rpos, wpos, rret, wret, seen>>

\* Stats lines 69-70: s.lastWrite.Load(), and the ReaderStats is returned
StatsLoadLastWrite ==
    /\ spos = "lastWrite"
    /\ stats' = [stats EXCEPT !.lastWriteAt = atomicTimeLoad(lastWrite[tunnel.dev])]
    /\ spos' = "returned"
    /\ UNCHANGED <<metricsFrame, ioVars, stampVars, rpos, wpos, rret, wret, seen>>

\* debug.go lines 182-193: the resource monitor logs the ReaderStats and drops it
resourceMonitorLog ==
    /\ spos = "returned"
    /\ stats' = ZeroStats
    /\ seen' = {}
    /\ spos' = "idle"
    /\ UNCHANGED <<metricsFrame, ioVars, stampVars, rpos, wpos, rret, wret>>

Next ==
    \/ /\ nConnect + nDisconnect < MaxCalls
       /\ \E link \in Links : ConnectCall(link)
    \/ ConnectStart
    \/ ConnectTunNew
    \/ ConnectTunUp
    \/ ConnectTunRoutes
    \/ ConnectDeleteDangling
    \/ ConnectAddException
    \/ ConnectSpawn
    \/ \E i \in Ids : PipeCopyReturns(i)
    \/ /\ nConnect + nDisconnect < MaxCalls
       /\ DisconnectCall
    \/ DisconnectStopDebugging
    \/ DisconnectJoin
    \/ DisconnectStopTunnel
    \/ DisconnectXCloseCall
    \/ DisconnectXCloseReturn
    \/ DisconnectTCloseCall
    \/ DisconnectTCloseReturn
    \/ DisconnectRDelCall
    \/ DisconnectRDelReturn
    \/ \E i \in Ids : DisconnectRecv(i)
    \/ DisconnectDeadline
    \/ CallerDeadline
    \/ TimeoutFires
    \/ GatewayChange
    \/ validateGateway
    \/ updateGatewayIPDelete
    \/ updateGatewayIPAdd
    \/ gatewayMonitorExit

Spec == Init /\ [][Next]_vars

\* the gateway monitor's ticker keeps firing and its goroutine keeps running
FairSpec ==
    /\ Spec
    /\ WF_vars(validateGateway)
    /\ WF_vars(updateGatewayIPDelete)
    /\ WF_vars(updateGatewayIPAdd)

\* the lifecycle together with the traffic through the TUN device: Connect is
\* called with a good link or one that does not parse, on a host without an
\* exception route for the server whose gateway changes once, away from gw1
IOLinks == {link \in Links : link.protoOk /\ link.makeOk /\ link.resolveOk}

IOInit == Init /\ osRoutes = {HostRoute}

IONext ==
    \/ /\ nConnect + nDisconnect < MaxIOCalls
       /\ \E link \in IOLinks : ConnectCall(link)
    \/ ConnectStart
    \/ ConnectTunNew
    \/ ConnectTunUp
    \/ ConnectTunRoutes
    \/ ConnectDeleteDangling
    \/ ConnectAddException
    \/ ConnectSpawn
    \/ \E i \in Ids : PipeCopyReturns(i)
    \/ \E i \in Ids : TunRead(i)
    \/ \E i \in Ids : TunWrite(i)
    \/ /\ nConnect + nDisconnect < MaxIOCalls
       /\ DisconnectCall
    \/ DisconnectStopDebugging
    \/ DisconnectJoin
    \/ DisconnectStopTunnel
    \/ DisconnectXCloseCall
    \/ DisconnectXCloseReturn
    \/ DisconnectTCloseCall
    \/ DisconnectTCloseReturn
    \/ DisconnectRDelCall
    \/ DisconnectRDelReturn
    \/ \E i \in Ids : DisconnectRecv(i)
    \/ DisconnectDeadline
    \/ CallerDeadline
    \/ TimeoutFires
    \/ /\ osGateway = "gw1"
       /\ GatewayChange
    \/ validateGateway
    \/ updateGatewayIPDelete
    \/ updateGatewayIPAdd
    \/ gatewayMonitorExit

IOSpec == IOInit /\ [][IONext]_vars

\* the sessions of a client without Debug and their pipe goroutines, on a host
\* without an exception route for the server, over more calls than Spec
PipeInit == Init /\ ~debugEnabled /\ osRoutes = {HostRoute}

PipeNext ==
    \/ /\ nConnect + nDisconnect < MaxPipeCalls
       /\ \E link \in IOLinks : ConnectCall(link)
    \/ ConnectStart
    \/ ConnectTunNew
    \/ ConnectTunUp
    \/ ConnectTunRoutes
    \/ ConnectDeleteDangling
    \/ ConnectAddException
    \/ ConnectSpawn
    \/ \E i \in Ids : PipeCopyReturns(i)
    \/ /\ nConnect + nDisconnect < MaxPipeCalls
       /\ DisconnectCall
    \/ DisconnectStopDebugging
    \/ DisconnectStopTunnel
    \/ DisconnectXCloseCall
    \/ DisconnectXCloseReturn
    \/ DisconnectTCloseCall
    \/ DisconnectTCloseReturn
    \/ DisconnectRDelCall
    \/ DisconnectRDelReturn
    \/ \E i \in Ids : DisconnectRecv(i)
    \/ DisconnectDeadline
    \/ CallerDeadline
    \/ TimeoutFires

PipeSpec == PipeInit /\ [][PipeNext]_vars

\* the steps of a Connect call and of a Disconnect call after their first
ConnectSteps ==
    \/ ConnectStart
    \/ ConnectTunNew
    \/ ConnectTunUp
    \/ ConnectTunRoutes
    \/ ConnectDeleteDangling
    \/ ConnectAddException
    \/ ConnectSpawn

DisconnectSteps ==
    \/ DisconnectStopDebugging
    \/ DisconnectStopTunnel
    \/ DisconnectXCloseCall
    \/ DisconnectXCloseReturn
    \/ DisconnectTCloseCall
    \/ DisconnectTCloseReturn
    \/ DisconnectRDelCall
    \/ DisconnectRDelReturn

\* PipeSpec with the scheduler's guarantees: a call that has started keeps running,
\* a Copy whose context was cancelled returns, a send and a receive that are both
\* ready on tunnelStopped meet, the timer of Disconnect fires and a select with a
\* ready case proceeds; whether and when the caller calls again is up to the caller
PipeFairSpec ==
    /\ PipeSpec
    /\ WF_vars(ConnectSteps)
    /\ WF_vars(DisconnectSteps)
    /\ \A i \in Ids : WF_vars(i \in cancelled /\ PipeCopyReturns(i))
    /\ \A i \in Ids : WF_vars(DisconnectRecv(i))
    /\ WF_vars(TimeoutFires)
    /\ WF_vars(DisconnectDeadline)

\* one Connect of a client, the gateway monitor at the grain of its lock
\* operations, and a goroutine that calls GatewayIP() and writes into what it gets
LockNext ==
    \/ /\ nConnect = 0
       /\ ConnectCall(NoLink)
    \/ ConnectStart
    \/ ConnectTunNew
    \/ ConnectTunUp
    \/ ConnectTunRoutes
    \/ ConnectDeleteDangling
    \/ ConnectAddException
    \/ ConnectSpawn
    \/ GatewayChange
    \/ \E p \in Procs : cgRLock(p)
    \/ \E p \in Procs : cgCopy(p)
    \/ \E p \in Procs : cgRUnlock(p)
    \/ GatewayIPCall
    \/ GatewayIPReturn
    \/ CallerMutatesIP
    \/ gmTick
    \/ gmDiscover
    \/ gmCompare
    \/ gmLock
    \/ gmSwap
    \/ gmUnlock
    \/ gmDelete
    \/ gmAdd

LockSpec == Init /\ [][LockNext]_vars

\* one session of a client without Debug, up to the Close of its wrapper: its
\* Connect, the Reads and Writes of its pipe on the wrapper at the grain of their
\* atomic operations, and its Disconnect
MetricsInit == Init /\ ~debugEnabled /\ osRoutes = {HostRoute}

MetricsNext ==
    \/ /\ nConnect = 0
       /\ \E link \in IOLinks : ConnectCall(link)
    \/ ConnectStart
    \/ ConnectTunNew
    \/ ConnectTunUp
    \/ ConnectTunRoutes
    \/ ConnectDeleteDangling
    \/ ConnectAddException
    \/ ConnectSpawn
    \/ \E i \in Ids : PipeCopyReturns(i)
    \/ ClockTick
    \/ \E i \in Ids : rmReadAdd(i)
    \/ \E i \in Ids : rmReadStore(i)
    \/ \E i \in Ids : rmWriteAdd(i)
    \/ \E i \in Ids : rmWriteStore(i)
    \/ /\ nDisconnect = 0
       /\ DisconnectCall
    \/ DisconnectStopDebugging
    \/ DisconnectStopTunnel
    \/ DisconnectXCloseCall
    \/ DisconnectXCloseReturn
    \/ DisconnectTCloseCall
    \/ DisconnectTCloseReturn

MetricsSpec == MetricsInit /\ [][MetricsNext]_vars

\* the Connect of a client with Debug and what runs after it: the Reads and Writes
\* of the pipe on the wrapper and the resource monitor calling Stats on it
StatsInit == Init /\ debugEnabled /\ osRoutes = {HostRoute}

StatsNext ==
    \/ /\ nConnect = 0
       /\ \E link \in IOLinks : ConnectCall(link)
    \/ ConnectStart
    \/ ConnectTunNew
    \/ ConnectTunUp
    \/ ConnectTunRoutes
    \/ ConnectDeleteDangling
    \/ ConnectAddException
    \/ ConnectSpawn
    \/ ClockTick
    \/ \E i \in Ids : rmReadAdd(i)
    \/ \E i \in Ids : rmReadStore(i)
    \/ \E i \in Ids : rmWriteAdd(i)
    \/ \E i \in Ids : rmWriteStore(i)
    \/ StatsLoadRead
    \/ StatsLoadWritten
    \/ StatsLoadLastRead
    \/ StatsLoadLastWrite
    \/ resourceMonitorLog

StatsSpec == StatsInit /\ [][StatsNext]_vars

\* construction with every Config, followed by Connect calls
ConfigInit ==
    /\ pc = "new"
    /\ ClientInit
    /\ gatewayIP = osGateway
    /\ debugEnabled = FALSE
    /\ newCfg \in Configs
    /\ cfg = CfgFields(DefaultConfig(osGateway))

ConfigNext ==
    \/ NewClientWithOpts
    \/ \E link \in Links : ConnectCall(link)

ConfigSpec == ConfigInit /\ [][ConfigNext]_vars

\* ---- properties ---------------------------------------------------------------
ConnectReturnedOk == pc = "idle" /\ lastRet = [op |-> "Connect", err |-> {}]
ConnectReturnedErr == pc = "idle" /\ lastRet.op = "Connect" /\ lastRet.err # {}
DisconnectReturned == pc = "idle" /\ lastRet.op = "Disconnect"
\* Disconnect has returned and it had been called on a connected client
DisconnectedSession == DisconnectReturned /\ onConnected
ExceptionRoutes == {RouteOpts(NoIf, g, {<<ServerIP, 32>>}) : g \in Gateways}

C2_FailedConnectLeavesNothing ==
    ConnectReturnedErr =>
        /\ engine[nConnect] # "started"
        /\ tunDev[nConnect] # "open"
        /\ TunRoutes(nConnect) \notin osRoutes
        /\ ops.addExcOk = 0

\* C3: after a single, successful Connect every Disconnect but the first invokes
\* no collaborator and returns nil.
C3_LaterDisconnectsDoNothing ==
    (nConnect = 1 /\ nConnOk = 1 /\ nDiscSince >= 2) =>
        /\ ops = ZeroOps
        /\ DisconnectReturned => lastRet.err = {}

\* the conditions under which the routes of a session can be compared: the TUN
\* device was closed, the exception route was deleted or was not there, and no
\* Delete of the gateway monitor left its route behind
SessionCleanedUp ==
    /\ DisconnectedSession
    /\ res.t = "ok"
    /\ res.r \in {"ok", ErrNotFound}
    /\ ~wDelLeft

C5_DisconnectJoinsAll ==
    DisconnectedSession =>
        /\ ops.xClose = 1 /\ ops.tClose = 1 /\ ops.delExc = 1
        /\ Join({res.x, res.t, res.r}) \subseteq lastRet.err
        /\ res.p # "deadline" => Join({res.p}) \subseteq lastRet.err
        /\ lastRet.err = {} => res = [x |-> "ok", t |-> "ok", r |-> "ok", p |-> "ok"]

C5_Witness ==
    /\ DisconnectedSession
    /\ {ErrInstanceClose, ErrTunClose, ErrStop} \subseteq lastRet.err

\* C6: a Disconnect on a connected client that ends on its deadline returns
\* DeadlineExceeded together with the errors of xInst.Close, tunnel.Close and the
\* route Delete, each called once, and returns while the pipe may still run.
C6_DeadlineJoined ==
    (DisconnectedSession /\ res.p = "deadline") =>
        /\ ErrDeadline \in lastRet.err
        /\ Join({res.x, res.t, res.r}) \subseteq lastRet.err
        /\ ops.xClose = 1 /\ ops.tClose = 1 /\ ops.delExc = 1 /\ ops.wait = 1

C6_Witness ==
    /\ DisconnectedSession
    /\ res.p = "deadline"
    /\ pipe[stopTunnel] = "copying"
    /\ lastRet.err = {ErrDeadline, ErrInstanceClose}

\* C7: once the deadline of a Disconnect has fired, Disconnect is neither waiting
\* for a gateway monitor that is busy in updateGatewayIP nor inside a call of
\* xInst.Close, tunnel.Close or routes.Delete that has not returned.
C7_NotBlockedAfterDeadline ==
    ctxDone =>
        /\ ~(pc = "d_join" /\ watcher \in {"u_delete", "u_add"})
        /\ pc \notin {"d_xCloseIn", "d_tCloseIn", "d_rDelIn"}

\* C8: while no Connect has succeeded, Disconnect returns nil at its guard: it
\* never gets past it, cancels nothing and calls no collaborator.
C8_DisconnectNeverConnected ==
    nConnOk = 0 =>
        /\ pc \notin DisconnectPcs
        /\ cancelled = {}
        /\ DisconnectReturned => (lastRet.err = {} /\ ops = ZeroOps)

C8_Witness ==
    /\ DisconnectReturned
    /\ nConnOk = 0
    /\ nConnect >= 1
    /\ xInst # Nil
    /\ engine[xInst] = "started"

\* C9: Connect with a link that CreateProtocol or Parse rejects returns the
\* invalid-config error of the first stage that rejects it (protocol create before
\* parse), having started no engine, created no TUN device and touched no route.
C9_MalformedLink ==
    (pc = "idle" /\ lastRet.op = "Connect" /\ ~(lastLink.protoOk /\ lastLink.parseOk)) =>
        /\ lastRet.err = {IF ~lastLink.protoOk THEN ErrProtocolCreate ELSE ErrParse}
        /\ ops = ZeroOps
        /\ engine[nConnect] = "none"
        /\ tunDev[nConnect] = "none"

C9_Witness ==
    /\ pc = "idle"
    /\ lastRet = [op |-> "Connect", err |-> {ErrProtocolCreate}]
    /\ ~lastLink.protoOk
    /\ ~lastLink.parseOk

\* C10: when every Connect so far has succeeded and nothing was disconnected, at
\* most one engine is started, one TUN device open, one set of tunnel routes
\* installed and one pipe goroutine running.
C10_AtMostOneSession ==
    (nDisconnect = 0 /\ nConnOk >= nConnect - 1 /\ (pc = "idle" => nConnOk = nConnect)) =>
        /\ Cardinality({i \in Ids : engine[i] = "started"}) <= 1
        /\ Cardinality({i \in Ids : tunDev[i] = "open"}) <= 1
        /\ Cardinality({i \in Ids : TunRoutes(i) \in osRoutes}) <= 1
        /\ Cardinality({i \in Ids : pipe[i] \in {"copying", "sending"}}) <= 1

\* ---- C11 .. C20 ------------------------------------------------------------------
ExceptionRoute(g) == RouteOpts(NoIf, g, {<<ServerIP, 32>>})
\* the exception routes for the server that are installed
InstalledExceptionRoutes == osRoutes \cap ExceptionRoutes
\* updateGatewayIP has run to its end for the host's gateway and a Delete or an
\* Add it issued has failed
GatewayUpdateFailed ==
    /\ watcher = "idle"
    /\ gatewayIP = osGateway
    /\ InstalledExceptionRoutes # {ExceptionRoute(osGateway)}

\* C11: when the host's gateway has changed while the client is connected, then,
\* with or without Debug, eventually exactly one exception route for the server
\* is installed and it goes through the host's gateway (unless the caller makes
\* another call first, or a route call of the update fails).
C11_ExceptionRouteFollowsGateway ==
    (ConnectReturnedOk /\ gatewayIP # osGateway)
        ~> \/ ~ConnectReturnedOk
           \/ InstalledExceptionRoutes = {ExceptionRoute(osGateway)}
           \/ GatewayUpdateFailed

\* a step after which the client is idle and that is not a call of the caller
NoNewCall == pc' = "idle" /\ nConnect' = nConnect /\ nDisconnect' = nDisconnect

\* C12 (as claimed): once Disconnect has returned, and until the caller's next
\* call, nothing of the session touches the host any more: no route is added or
\* deleted, no engine and no TUN device changes state, nothing is read from or
\* written to a TUN device.
C12_NoEffectsAfterDisconnect ==
    [][(DisconnectReturned /\ NoNewCall) =>
           /\ osRoutes' = osRoutes /\ engine' = engine /\ tunDev' = tunDev
           /\ nRead' = nRead /\ nWritten' = nWritten]_vars

\* C12 (amended): once Disconnect has returned, the gateway monitor has ended,
\* and until the caller's next call no route is added or deleted and no engine
\* and no TUN device changes state; only a pipe goroutine that has not returned
\* still reads and writes its TUN device.
C12_NoRouteEffectsAfterDisconnect ==
    /\ [](DisconnectReturned => watcher = "off")
    /\ [][(DisconnectReturned /\ NoNewCall) =>
              /\ osRoutes' = osRoutes /\ engine' = engine /\ tunDev' = tunDev
              /\ \A i \in Ids : (nRead'[i] # nRead[i] \/ nWritten'[i] # nWritten[i])
                                    => pipe[i] = "copying"]_vars

C12_Witness ==
    /\ DisconnectedSession
    /\ debugEnabled
    /\ gatewayIP = "gw2"
    /\ ExceptionRoute("gw2") \notin osRoutes
    /\ res.p = "deadline"
    /\ pipe[stopTunnel] = "copying"
    /\ BytesRead > 0

\* C13: while the client is connected (Connect has returned nil and no further
\* call was made) no step makes BytesRead() or BytesWritten() smaller, whatever
\* the pipe reads and writes in between.
C13_CountersNeverDecrease ==
    [][(ConnectReturnedOk /\ ConnectReturnedOk') =>
           /\ BytesRead' >= BytesRead
           /\ BytesWritten' >= BytesWritten]_vars

C13_Witness ==
    /\ ConnectReturnedOk
    /\ nDisconnect = 0
    /\ BytesRead > 0
    /\ BytesWritten > 0

\* C14: no step of Disconnect changes what BytesRead() and BytesWritten() return;
\* after Disconnect has returned they give the counters of the session's tunnel,
\* which do not go down (nor back to zero) until the caller's next call.
C14_DisconnectKeepsCounters ==
    /\ [][(pc' # pc /\ (pc \in DisconnectPcs \/ pc' \in DisconnectPcs)) =>
              /\ BytesRead' = BytesRead
              /\ BytesWritten' = BytesWritten]_vars
    /\ [](DisconnectedSession =>
              /\ BytesRead = nRead[stopTunnel]
              /\ BytesWritten = nWritten[stopTunnel])
    /\ [][(DisconnectReturned /\ NoNewCall) =>
              /\ BytesRead' >= BytesRead
              /\ BytesWritten' >= BytesWritten]_vars

C14_Witness ==
    /\ DisconnectedSession
    /\ lastRet.err = {}
    /\ tunDev[stopTunnel] = "closed"
    /\ BytesRead > 0
    /\ BytesWritten > 0

\* a field of the Config given when it is not its zero value, the default otherwise
Overlay(zero, given, default) == IF given # zero THEN given ELSE default

\* C15: the client NewClientWithOpts(newCfg) makes uses, for every field of the
\* Config, the given value when that is not the zero value and the default of
\* NewClient otherwise (the DebugOptions in their normalized form).
C15_ConfigIsDefaultsOverlaid ==
    pc # "new" =>
        LET d == DefaultConfig(osGateway)
        IN /\ gatewayIP = Overlay("", newCfg.gatewayIP, d.gatewayIP)
           /\ cfg.inboundProxy = Overlay("", newCfg.inboundProxy, d.inboundProxy)
           /\ cfg.tunAddress = Overlay("", newCfg.tunAddress, d.tunAddress)
           /\ cfg.routesToTUN = Overlay("", newCfg.routesToTUN, d.routesToTUN)
           /\ cfg.tlsAllowInsecure =
                  Overlay(FALSE, newCfg.tlsAllowInsecure, d.tlsAllowInsecure)
           /\ cfg.logger = Overlay(NilLogger, newCfg.logger, d.logger)
           /\ cfg.xrayLogType = Overlay("None", newCfg.xrayLogType, d.xrayLogType)
           /\ debugEnabled = Overlay(FALSE, newCfg.debug, d.debug)
           /\ cfg.debugOptions =
                  normalized(Overlay(ZeroDebugOptions, newCfg.debugOptions, d.debugOptions))

\* the lowest of the levels debug, info, warn and error that handler h enables
MinEnabledLevel(h) ==
    IF Enabled(h, LevelDebug) THEN "debug"
    ELSE IF Enabled(h, LevelInfo) THEN "info"
    ELSE IF Enabled(h, LevelWarn) THEN "warn"
    ELSE IF Enabled(h, LevelError) THEN "error"
    ELSE "none"

\* C16: the severity the xray service is created with is debug, info, warning or
\* error when the lowest level the client's logger enables is debug, info, warn
\* or error, and unknown when the logger enables none of them.
C16_SeverityFollowsLogger ==
    severity # "unset" =>
        severity = CASE MinEnabledLevel(cfg.logger) = "debug" -> "Severity_Debug"
                     [] MinEnabledLevel(cfg.logger) = "info" -> "Severity_Info"
                     [] MinEnabledLevel(cfg.logger) = "warn" -> "Severity_Warning"
                     [] MinEnabledLevel(cfg.logger) = "error" -> "Severity_Error"
                     [] OTHER -> "Severity_Unknown"

\* C17: after a Connect has returned an error, the Disconnect that follows
\* returns at its guard: it reaches no later line of Disconnect, so it calls no
\* collaborator, and it does not panic.
C17_DisconnectAfterFailedConnect ==
    (lastRet.op = "Connect" /\ lastRet.err # {}) =>
        /\ pc \notin DisconnectPcs
        /\ pc # "panicked"

\* C18: a Connect that returns nil has called xInst.Start, tun.New, ifc.Up, the Add
\* of the tunnel routes, the Delete of a dangling exception route and the Add of
\* the exception route once each and has spawned its pipe goroutine once; the
\* goroutine is spawned only after both Adds have succeeded, as the last step
\* before Connect returns.
C18_ConnectCallsEachOnce ==
    /\ ConnectReturnedOk =>
           /\ ops.start = 1 /\ ops.tunNew = 1 /\ ops.tunUp = 1
           /\ ops.addTun = 1 /\ ops.delExc = 1 /\ ops.addExc = 1
           /\ ops.spawn = 1
           /\ pipe[nConnect] # "none"
    /\ ops.spawn > 0 => (ops.addTunOk = 1 /\ ops.addExcOk = 1)
    /\ pc \in ConnectPcs => pipe[nConnect] = "none"

C18_Witness ==
    /\ ConnectReturnedOk
    /\ nConnect = 1
    /\ ExceptionRoute("gw1") \in routesBefore
    /\ ops.delExc = 1
    /\ ops.spawn = 1
    /\ engine[1] = "started"
    /\ pipe[1] = "copying"

\* C19: in a Disconnect that got past its guard, xInst.Close, tunnel.Close and the
\* Delete of the exception route are called only after c.stopTunnel() has
\* cancelled the context of the pipe.
C19_CancelBeforeClose ==
    /\ pc \in {"d_xClose", "d_xCloseIn", "d_tClose", "d_tCloseIn", "d_rDel", "d_rDelIn",
               "d_wait"} => (ops.cancel = 1 /\ stopTunnel \in cancelled)
    /\ (nDiscSince > 0 /\ (ops.xClose > 0 \/ ops.tClose > 0 \/ ops.delExc > 0)) =>
           (ops.cancel = 1 /\ stopTunnel \in cancelled)

C19_Witness ==
    /\ pc = "d_rDelIn"
    /\ onConnected
    /\ stopTunnel \in cancelled
    /\ pipe[stopTunnel] = "copying"
    /\ xrayToGatewayRoute \in osRoutes

\* C20: the gateway monitor, on a gateway that differs, first swaps GatewayIP to
\* the new gateway without touching a route, then deletes (at most) the exception
\* route through the old gateway, then adds (at most) the one through the new
\* gateway; none of these steps, failed or not, cancels a pipe, changes an engine
\* or a TUN device, or changes what a caller is doing or was returned.
C20_GatewayUpdate ==
    [][/\ (watcher = "idle" /\ watcher' = "u_delete") =>
              /\ gatewayIP' = osGateway /\ gatewayIP' # gatewayIP
              /\ oldRoute' = RouteOpts(NoIf, gatewayIP, {<<xSrvIP, 32>>})
              /\ osRoutes' = osRoutes
       /\ (watcher = "u_delete" /\ watcher' # watcher) =>
              /\ watcher' = "u_add"
              /\ oldRoute.gateway # gatewayIP
              /\ osRoutes' \in {osRoutes, osRoutes \ {oldRoute}}
              /\ gatewayIP' = gatewayIP
       /\ (watcher = "u_add" /\ watcher' # watcher) =>
              /\ watcher' = "idle"
              /\ osRoutes' \in {osRoutes,
                                osRoutes \cup {RouteOpts(NoIf, gatewayIP, {<<xSrvIP, 32>>})}}
              /\ gatewayIP' = gatewayIP
       /\ (watcher \in {"idle", "u_delete", "u_add"} /\ watcher' \in {"u_delete", "u_add", "idle"}
             /\ watcher' # watcher) =>
              /\ cancelled' = cancelled /\ pipe' = pipe
              /\ engine' = engine /\ tunDev' = tunDev
              /\ pc' = pc /\ err' = err /\ lastRet' = lastRet]_vars

C20_Witness ==
    /\ ConnectReturnedOk
    /\ watcher = "idle"
    /\ gatewayIP = "gw2"
    /\ wDelLeft
    /\ ExceptionRoute("gw2") \notin osRoutes
    /\ cancelled = {}
    /\ pipe[nConnect] = "copying"
    /\ engine[nConnect] = "started"
    /\ tunDev[nConnect] = "open"

\* ---- C21 .. C29 ------------------------------------------------------------------
\* C21: a Disconnect on a connected client in which xInst.Close, tunnel.Close and
\* the pipe gave no error and the Delete of the exception route gave NotFound
\* returns nil; and Connect goes on to the Add of the exception route whatever
\* its Delete of a dangling exception route gave.
C21_NotFoundIsSuccess ==
    /\ (DisconnectedSession
          /\ res = [x |-> "ok", t |-> "ok", r |-> ErrNotFound, p |-> "ok"]) =>
           lastRet.err = {}
    /\ (pc = "idle" /\ lastRet.op = "Connect" /\ ops.delExc > 0) => ops.addExc > 0

\* the step at which the Copy of pipe goroutine i returns on its own
CopyReturnsOnItsOwn(i) ==
    pipe[i] = "copying" /\ pipe'[i] = "sending" /\ i \notin cancelled

\* C22 (no teardown): the step at which a Copy returns on its own changes no engine,
\* no TUN device and no route and leaves the caller where it is; while the client is
\* connected no engine or TUN device changes and no route either, but for the
\* gateway monitor's update of the exception route.
C22_NoTeardownOnPipeReturn ==
    [][/\ \A i \in Ids : CopyReturnsOnItsOwn(i) =>
              /\ engine' = engine /\ tunDev' = tunDev /\ osRoutes' = osRoutes
              /\ pc' = pc /\ lastRet' = lastRet
       /\ (ConnectReturnedOk /\ NoNewCall) =>
              /\ engine' = engine /\ tunDev' = tunDev
              /\ osRoutes' # osRoutes => watcher \in {"u_delete", "u_add"}]_vars

\* C22: when the Copy of a session's pipe has returned an error on its own, then,
\* besides there being no teardown, the Disconnect the caller makes next, if it
\* does not end on its deadline, returns an error that includes that error.
C22_PipeReturnsOnItsOwn ==
    /\ C22_NoTeardownOnPipeReturn
    /\ [][(pc = "d_wait" /\ pc' = "idle" /\ onConnected /\ res'.p # "deadline"
             /\ stopTunnel \in ownReturn) =>
              pipeErr[stopTunnel] \in lastRet'.err]_vars

\* C23: every exception-route call carries ExceptionRoute(g): no interface name,
\* gateway g and one route, the resolved server IP with a /32 mask.  The Delete and the Add of Connect, the Delete of Disconnect and the Add of
\* the gateway monitor act on the route table with the RouteSpec built from the
\* GatewayIP of that moment; the gateway monitor builds the RouteSpec of its Delete
\* from the GatewayIP it is about to replace, and deletes with that one.
C23_ExceptionRouteSpec ==
    [][/\ (pc \in {"c_delDangling", "d_rDelIn"} /\ pc' # pc) =>
              osRoutes' \in {osRoutes, osRoutes \ {ExceptionRoute(gatewayIP)}}
       /\ (pc = "c_addExc" /\ pc' # pc) =>
              osRoutes' \in {osRoutes, osRoutes \cup {ExceptionRoute(gatewayIP)}}
       /\ (watcher = "idle" /\ watcher' = "u_delete") =>
              oldRoute' = ExceptionRoute(gatewayIP)
       /\ (watcher = "u_delete" /\ watcher' # watcher) =>
              osRoutes' \in {osRoutes, osRoutes \ {oldRoute}}
       /\ (watcher = "u_add" /\ watcher' # watcher) =>
              osRoutes' \in {osRoutes, osRoutes \cup {ExceptionRoute(gatewayIP)}}]_vars

C23_Witness ==
    /\ DisconnectedSession
    /\ gatewayIP = "gw2"
    /\ res.r = "ok"
    /\ ~wDelLeft
    /\ ExceptionRoute("gw1") \notin routesBefore
    /\ InstalledExceptionRoutes = {}

\* the pipe goroutines that are sending on tunnelStopped or are going to
LivePipes == {i \in Ids : pipe[i] \in {"copying", "sending"}}

\* C24: at most one pipe goroutine is sending or going to send on tunnelStopped,
\* and when a Disconnect has received a result there, the goroutine of the most
\* recent successful Connect is the one that has delivered its result.
C24_SingleProducer ==
    /\ Cardinality(LivePipes) <= 1
    /\ (DisconnectReturned /\ res.p \notin {"none", "deadline"}) =>
           pipe[stopTunnel] = "done"

\* the positions at which a goroutine is inside DiscoverGateway, routes.Delete
\* or routes.Add
InCollaboratorCall == {"discover", "delete", "add"}

\* C25: a goroutine holds gwMu as reader only while currentGatewayIP copies the
\* gateway out, and as writer only around the swap of c.cfg.GatewayIP, so none
\* holds it inside DiscoverGateway, routes.Delete or routes.Add; and the net.IP
\* that GatewayIP() returns has an array of its own, so writing into it leaves
\* the client's GatewayIP as it is.
C25_LockScopeAndCopy ==
    /\ \A p \in Procs : p \in gwMu.readers => lpc[p] \in {"cg_copy", "cg_runlock"}
    /\ gwMu.writer # "none" => lpc[gwMu.writer] \in {"swap", "unlock"}
    /\ \A p \in Procs : lpc[p] \in InCollaboratorCall =>
           (p \notin gwMu.readers /\ gwMu.writer # p)
    /\ ipOut # NoIP => ipOut.arr # gwArr
    /\ gatewayIP \in Gateways

C25_Witness ==
    /\ lpc["mon"] = "delete"
    /\ gatewayIP = "gw2"
    /\ oldRoute = ExceptionRoute("gw1")
    /\ "api" \in gwMu.readers
    /\ ipOut.val = "mutated"

\* ---- C26 .. C29 ------------------------------------------------------------
\* the four values of every wrapper
AllFields == <<nRead, nWritten, lastRead, lastWrite>>

\* the steps of a Read and of a Write on the wrapper of device i
ReadCounts(i) == rpos[i] = "idle" /\ rpos'[i] = "store"
ReadStamps(i) == rpos[i] = "store" /\ rpos'[i] = "idle"
ReadFails(i) == rpos[i] = "idle" /\ rpos'[i] = "idle" /\ rret'[i].err /\ ~rret[i].err
WriteCounts(i) == wpos[i] = "idle" /\ wpos'[i] = "store"
WriteStamps(i) == wpos[i] = "store" /\ wpos'[i] = "idle"
WriteFails(i) == wpos[i] = "idle" /\ wpos'[i] = "idle" /\ wret'[i].err /\ ~wret[i].err

\* C26: a Read that gets n bytes and no error from the device adds exactly n to the
\* read counter of its wrapper and then stores the current time, which is not the
\* zero time, as its read timestamp, and neither step changes another value; a
\* Write does the same to the write counter and the write timestamp; a Read or a
\* Write that gets an error changes none of the four values, and neither does Close
C26_ReadWriteClose ==
    [][/\ \A i \in Ids :
            /\ ReadCounts(i) =>
                  /\ ~rret'[i].err
                  /\ nRead' = [nRead EXCEPT ![i] = @ + rret'[i].n]
                  /\ UNCHANGED <<nWritten, lastRead, lastWrite>>
            /\ ReadStamps(i) =>
                  /\ lastRead' = [lastRead EXCEPT ![i] = clock]
                  /\ atomicTimeLoad(lastRead'[i]) = Time(clock)
                  /\ ~atomicTimeLoad(lastRead'[i]).zero
                  /\ UNCHANGED <<nRead, nWritten, lastWrite>>
            /\ WriteCounts(i) =>
                  /\ ~wret'[i].err
                  /\ nWritten' = [nWritten EXCEPT ![i] = @ + wret'[i].n]
                  /\ UNCHANGED <<nRead, lastRead, lastWrite>>
            /\ WriteStamps(i) =>
                  /\ lastWrite' = [lastWrite EXCEPT ![i] = clock]
                  /\ atomicTimeLoad(lastWrite'[i]) = Time(clock)
                  /\ ~atomicTimeLoad(lastWrite'[i]).zero
                  /\ UNCHANGED <<nRead, nWritten, lastRead>>
            /\ (ReadFails(i) \/ WriteFails(i)) => UNCHANGED AllFields
       /\ (pc = "d_tCloseIn" /\ pc' = "d_rDel") => UNCHANGED AllFields]_vars

\* the wrapper has been closed after a Read and a Write of one byte each, at
\* different times, and a Read and a Write that failed
C26_Witness ==
    /\ pc = "d_rDel"
    /\ tunDev[1] = "closed"
    /\ nRead[1] = 1 /\ nWritten[1] = 1
    /\ lastRead[1] = 1 /\ lastWrite[1] = 2
    /\ rret[1].err /\ wret[1].err

\* the ReaderStats that Stats would return from the four values t of a wrapper
Snapshot(t) == [bytesRead |-> t[1], bytesWritten |-> t[2],
                lastReadAt |-> atomicTimeLoad(t[3]), lastWriteAt |-> atomicTimeLoad(t[4])]

\* C27: the ReaderStats that Stats returns is the four values of the wrapper as they
\* were together at one instant of the call, and it never has a bytes-read count
\* above zero together with the zero time as the time of the last read
C27_ConsistentSnapshot ==
    spos = "returned" =>
       /\ \E t \in seen : stats = Snapshot(t)
       /\ stats.bytesRead > 0 => ~stats.lastReadAt.zero

\* C28: in a process that does not crash, the pipe goroutine of a session that
\* Disconnect has stopped terminates once its Copy has returned: it does not stay
\* blocked in its send on tunnelStopped
C28_PipeTerminates ==
    \A i \in Ids :
       (i \in cancelled /\ pipe[i] = "sending") ~> (pipe[i] = "done" \/ pc = "panicked")

\* C29: between the calls on a client, BytesRead() and BytesWritten() return a value
\* (they do not fail), and the value is 0 while c.tunnel is not a metrics wrapper,
\* which includes the time after a Connect that failed in setupTunnel
C29_CountersNeverFail ==
    pc = "idle" =>
       /\ BytesRead >= 0 /\ BytesWritten >= 0
       /\ tunnel.kind # "metrics" => (BytesRead = 0 /\ BytesWritten = 0)

====
